---------------------------- MODULE Spec2Model ----------------------------
(***************************************************************************)
(* A model of the layout engine of scripts/rearrange_viz/entities:         *)
(* Object (object.py), Room (room.py) and Scene (scene.py).                *)
(*                                                                         *)
(* Python floats are modelled as exact rationals [n |-> Int, d |-> Nat],   *)
(* kept in lowest terms; the record with d = 0 stands for Python's None.   *)
(* A point is a pair <<x, y>> of rationals and <<>> stands for a None      *)
(* position.  Object references are indices into Scene.rooms.  Python's    *)
(* 0-based list indices are 1-based here.                                  *)
(***************************************************************************)
EXTENDS Integers, Sequences, FiniteSets, TLC

(***************************************************************************)
(* Bounds of the model.                                                    *)
(***************************************************************************)
\* Longest list of rooms a Scene is built from.
MaxRooms == 3

(***************************************************************************)
(* Rational arithmetic (Python float arithmetic without rounding).         *)
(***************************************************************************)
Abs(i) == IF i < 0 THEN -i ELSE i

RECURSIVE GCD(_, _)
GCD(a, b) == IF b = 0 THEN a ELSE GCD(b, a % b)

\* the rational n/d, d # 0, in lowest terms with a positive denominator
Frac(n, d) ==
    LET s == IF d < 0 THEN -1 ELSE 1
        g == GCD(Abs(n), Abs(d))
    IN  [n |-> (s * n) \div g, d |-> (s * d) \div g]

R(i) == [n |-> i, d |-> 1]
None == [n |-> 0, d |-> 0]
IsNone(a) == a.d = 0

RAdd(a, b) == Frac(a.n * b.d + b.n * a.d, a.d * b.d)
RSub(a, b) == Frac(a.n * b.d - b.n * a.d, a.d * b.d)
RMul(a, b) == Frac(a.n * b.n, a.d * b.d)
\* a / b for b # 0 (Python raises ZeroDivisionError otherwise)
RDiv(a, b) == Frac(a.n * b.d, a.d * b.n)
RLe(a, b) == a.n * b.d <= b.n * a.d
RLt(a, b) == a.n * b.d < b.n * a.d
RMax(a, b) == IF RLt(a, b) THEN b ELSE a
RMin(a, b) == IF RLt(b, a) THEN b ELSE a
RAbs(a) == [n |-> Abs(a.n), d |-> a.d]
RNeg(a) == [n |-> -a.n, d |-> a.d]

RECURSIVE RSum(_)
\* sum(...) over a sequence of rationals
RSum(s) == IF s = <<>> THEN R(0) ELSE RAdd(Head(s), RSum(Tail(s)))

RECURSIVE RMaxSeq(_)
\* max(...) over a non-empty sequence of rationals
RMaxSeq(s) == IF Len(s) = 1 THEN s[1] ELSE RMax(s[1], RMaxSeq(Tail(s)))

Range(s) == {s[k] : k \in DOMAIN s}


(***************************************************************************)
(* Strings are sequences of one-character strings.                         *)
(***************************************************************************)
S_kitchen_0 == <<"k","i","t","c","h","e","n","_","0">>
S_bedroom_0 == <<"b","e","d","r","o","o","m","_","0">>
S_hall_0    == <<"h","a","l","l","_","0">>
S_closet_0  == <<"c","l","o","s","e","t","_","0">>
S_fridge_0  == <<"f","r","i","d","g","e","_","0">>
S_table_0   == <<"t","a","b","l","e","_","0">>
S_shelf_0   == <<"s","h","e","l","f","_","0">>
S_apple_0   == <<"a","p","p","l","e","_","0">>
S_cup_0     == <<"c","u","p","_","0">>
\* ids that no room, receptacle or object of the library carries
S_ghost_0   == <<"g","h","o","s","t","_","0">>
S_crate_0   == <<"c","r","a","t","e","_","0">>
S_attic_0   == <<"a","t","t","i","c","_","0">>
\* ids of the rooms and receptacles only Room.plot is tried on
S_study_0   == <<"s","t","u","d","y","_","0">>
S_desk_0    == <<"d","e","s","k","_","0">>
S_pantry_0  == <<"p","a","n","t","r","y","_","0">>
S_rack_0    == <<"r","a","c","k","_","0">>
S_cellar_0  == <<"c","e","l","l","a","r","_","0">>

UpperCase == {"A","B","C","D","E","F","G","H","I","J","K","L","M",
              "N","O","P","Q","R","S","T","U","V","W","X","Y","Z"}
LowerOf == [c \in UpperCase |->
    CASE c = "A" -> "a" [] c = "B" -> "b" [] c = "C" -> "c" [] c = "D" -> "d"
      [] c = "E" -> "e" [] c = "F" -> "f" [] c = "G" -> "g" [] c = "H" -> "h"
      [] c = "I" -> "i" [] c = "J" -> "j" [] c = "K" -> "k" [] c = "L" -> "l"
      [] c = "M" -> "m" [] c = "N" -> "n" [] c = "O" -> "o" [] c = "P" -> "p"
      [] c = "Q" -> "q" [] c = "R" -> "r" [] c = "S" -> "s" [] c = "T" -> "t"
      [] c = "U" -> "u" [] c = "V" -> "v" [] c = "W" -> "w" [] c = "X" -> "x"
      [] c = "Y" -> "y" [] c = "Z" -> "z"]

\* str.lower()
Lower(s) == [k \in DOMAIN s |-> IF s[k] \in UpperCase THEN LowerOf[s[k]] ELSE s[k]]

RECURSIVE LStrip(_, _)
LStrip(s, c) == IF s # <<>> /\ Head(s) = c THEN LStrip(Tail(s), c) ELSE s

RECURSIVE RStrip(_, _)
RStrip(s, c) ==
    IF s # <<>> /\ s[Len(s)] = c THEN RStrip(SubSeq(s, 1, Len(s) - 1), c) ELSE s

\* str.strip(c): drops every leading and trailing c
Strip(s, c) == RStrip(LStrip(s, c), c)

RECURSIVE SplitAcc(_, _, _)
SplitAcc(s, sep, cur) ==
    IF s = <<>> THEN <<cur>>
    ELSE IF Head(s) = sep THEN <<cur>> \o SplitAcc(Tail(s), sep, <<>>)
    ELSE SplitAcc(Tail(s), sep, Append(cur, Head(s)))

\* str.split(sep): cuts at every sep, empty pieces kept
Split(s, sep) == SplitAcc(s, sep, <<>>)

\* str.split(): cuts at runs of blanks, empty pieces dropped
SplitWords(s) == SelectSeq(Split(s, " "), LAMBDA w : w # <<>>)

RECURSIVE Join(_, _)
\* sep.join(parts)
Join(parts, sep) ==
    IF parts = <<>> THEN <<>>
    ELSE IF Len(parts) = 1 THEN parts[1]
    ELSE parts[1] \o <<sep>> \o Join(Tail(parts), sep)

\* parts[:-1]
ButLast(parts) == SubSeq(parts, 1, Len(parts) - 1)

\* `sub in s` for strings
IsSubstring(sub, s) ==
    \E k \in 0..(Len(s) - Len(sub)) : SubSeq(s, k + 1, k + Len(sub)) = sub

\* " ".join(id.split("_")[:-1])
Phrase(id) == Join(ButLast(Split(id, "_")), " ")

\* "_".join(id.split("_")[:-1])
CategoryKey(id) == Join(ButLast(Split(id, "_")), "_")


(***************************************************************************)
(* State.                                                                  *)
(*   config  the configuration object handed to every entity               *)
(*   scene   the Scene: its rooms (with their receptacles and objects),    *)
(*           instruction, width and height                                 *)
(*   frame   the call in progress: its position (pc), arguments and locals *)
(*   canvas  what has been drawn on the axes of the current figure         *)
(*   probe   arguments and result of the last direct call of a helper      *)
(***************************************************************************)
VARIABLES config, scene, frame, canvas, probe

vars == <<config, scene, frame, canvas, probe>>

(***************************************************************************)
(* Configuration values are inputs (they are read from a file that is not  *)
(* part of the sources); target_width is None in the unconstrained variant.*)
(***************************************************************************)
RoomConfig ==
    [min_width |-> R(60), min_width_per_object |-> R(2),
     left_pad |-> R(10), right_pad |-> R(10),
     horizontal_margin |-> R(10), vertical_margin |-> R(10),
     full_height |-> R(100), half_height |-> R(50),
     bottom_pad |-> R(20), top_pad |-> R(10),
     receptacle_horizontal_margin_fraction |-> Frac(1, 10),
     object_horizontal_margin_fraction |-> Frac(1, 10),
     objects_height |-> Frac(3, 4),
     placeholder_height_if_full |-> Frac(1, 2),
     placeholder_height_if_half |-> Frac(1, 2)]

ObjectConfig == [width |-> R(30), height |-> R(30), text_margin |-> R(5)]

TargetWidths == {R(450), R(150), None}

Configs ==
    {[room |-> RoomConfig, object |-> ObjectConfig,
      scene |-> [target_width |-> t]] : t \in TargetWidths}

(***************************************************************************)
(* Object (object.py).                                                     *)
(***************************************************************************)
\* keys of object_category_map (entities/constants.py)
ObjectCategoryKeys == {CategoryKey(S_apple_0), CategoryKey(S_cup_0)}

\* Object.__init__; icon tells whether icon_path names an existing file
MkObject(object_id, icon) ==
    [object_id |-> object_id, icon |-> icon,
     center_position |-> <<>>, is_on_floor |-> FALSE]

\* Object.width, Object.height
ObjectWidth(obj) == config.object.width
ObjectHeight(obj) == config.object.height

\* Object.plot: [obj |-> the object afterwards, err |-> "" or the exception]
ObjectPlot(obj, position) ==
    IF ~obj.icon /\ CategoryKey(obj.object_id) \notin ObjectCategoryKeys
    THEN [obj |-> obj, err |-> "KeyError"]
    ELSE [obj |-> [obj EXCEPT !.center_position =
                      <<RAdd(position[1], RDiv(config.object.width, R(2))),
                        RAdd(position[2], RDiv(config.object.height, R(2)))>>],
          err |-> ""]

(***************************************************************************)
(* Receptacle (entities/receptacle.py, used through its interface).        *)
(***************************************************************************)
MkReceptacle(receptacle_id, width, height) ==
    [receptacle_id |-> receptacle_id, width |-> width, height |-> height,
     plot_top_placeholder |-> FALSE, plot_center_placeholder |-> FALSE,
     center_placeholder_position |-> <<>>, top_placeholder_position |-> <<>>,
     new_top_item_position |-> <<>>,
     \* the position Receptacle.plot was last called with
     position |-> <<>>]

\* Receptacle.plot: the anchors follow the position the receptacle is drawn at
ReceptaclePlot(recep, position) ==
    [recep EXCEPT
       !.center_placeholder_position =
           <<RAdd(position[1], RDiv(recep.width, R(2))),
             RAdd(position[2], RDiv(recep.height, R(2)))>>,
       !.top_placeholder_position =
           <<RAdd(position[1], RDiv(recep.width, R(2))),
             RAdd(position[2], recep.height)>>,
       !.new_top_item_position =
           <<RAdd(position[1], RDiv(recep.width, R(2))),
             RAdd(position[2], recep.height)>>]

(***************************************************************************)
(* Room (room.py).                                                         *)
(***************************************************************************)
\* `if self.objects:` -- neither None nor empty
HasObjects(room) == ~room.objects_none /\ room.objects # <<>>

\* the keys of object_to_recep; no object is mapped when it is None
IsMapped(room, obj) ==
    ~room.object_to_recep.none /\ obj.object_id \in DOMAIN room.object_to_recep.map

ReceptacleWidths(room) ==
    RSum([k \in DOMAIN room.receptacles |-> room.receptacles[k].width])

\* Room.init_size
InitSize(room) ==
    LET c == config.room
        object_widths ==
            RSum([k \in DOMAIN room.objects |-> ObjectWidth(room.objects[k])])
        min_width ==
            IF HasObjects(room)
            THEN RMax(c.min_width, RMul(object_widths, c.min_width_per_object))
            ELSE c.min_width
        total_receptacle_width == RMax(min_width, ReceptacleWidths(room))
        room_width == RAdd(RAdd(total_receptacle_width, c.left_pad), c.right_pad)
        room_height ==
            RAdd(RAdd(IF room.use_full_height THEN c.full_height ELSE c.half_height,
                      c.bottom_pad), c.top_pad)
    IN  [room EXCEPT
           !.room_width = room_width,
           !.width = RAdd(room_width, RMul(R(2), c.horizontal_margin)),
           !.room_height = room_height,
           !.height = RAdd(room_height, RMul(R(2), c.vertical_margin))]

\* Room.__init__
MkRoom(room_id, receptacles, objects, objects_none, use_full_height, object_to_recep) ==
    InitSize(
      [room_id |-> room_id, receptacles |-> receptacles,
       objects |-> objects, objects_none |-> objects_none,
       in_proposition |-> FALSE, plot_placeholder |-> FALSE,
       object_to_recep |-> object_to_recep,
       use_full_height |->
           IF ~objects_none /\ objects # <<>> THEN TRUE ELSE use_full_height,
       room_width |-> None, width |-> None, room_height |-> None, height |-> None,
       center_position |-> <<>>])

\* Room.find_object_by_id: index of the first object with that id, 0 for None
FindObjectById(room, object_id) ==
    IF HasObjects(room) /\ \E k \in DOMAIN room.objects : room.objects[k].object_id = object_id
    THEN CHOOSE k \in DOMAIN room.objects :
           /\ room.objects[k].object_id = object_id
           /\ \A j \in 1..(k - 1) : room.objects[j].object_id # object_id
    ELSE 0

\* Room.find_receptacle_by_id: index of the first receptacle with that id, 0 for None
FindReceptacleById(room, receptacle_id) ==
    IF \E k \in DOMAIN room.receptacles : room.receptacles[k].receptacle_id = receptacle_id
    THEN CHOOSE k \in DOMAIN room.receptacles :
           /\ room.receptacles[k].receptacle_id = receptacle_id
           /\ \A j \in 1..(k - 1) : room.receptacles[j].receptacle_id # receptacle_id
    ELSE 0


\* hasattr(obj, "text_position"): Object.plot keeps text_position in a local
\* variable and no method of Object sets the attribute
HasTextPosition(obj) == FALSE

\* the value Object.plot computes for its local text_position
TextPosition(obj) ==
    <<obj.center_position[1], RAdd(obj.center_position[2], config.object.text_margin)>>

RECURSIVE PlotReceptacles(_, _, _, _, _)
\* Room.plot, the loop over self.receptacles from index k on
PlotReceptacles(receps, k, offset, spacing, y) ==
    IF k > Len(receps) THEN receps
    ELSE PlotReceptacles(
           [receps EXCEPT ![k] = [ReceptaclePlot(receps[k], <<offset, y>>) EXCEPT
                                    !.position = <<offset, y>>]],
           k + 1, RAdd(offset, RAdd(receps[k].width, spacing)), spacing, y)

RECURSIVE PlotObjects(_, _, _, _, _)
\* Room.plot, the loop over self.objects from index k on:
\* [room |-> the room afterwards, err |-> "" or the exception raised]
PlotObjects(room, k, offset, spacing, y) ==
    IF k > Len(room.objects) THEN [room |-> room, err |-> ""]
    ELSE
      LET obj == room.objects[k] IN
      IF ~IsMapped(room, obj)
      THEN LET r == ObjectPlot(obj, <<offset, y>>) IN
           IF r.err # "" THEN [room |-> room, err |-> r.err]
           ELSE PlotObjects([room EXCEPT !.objects[k] = r.obj], k + 1,
                            RAdd(offset, RAdd(ObjectWidth(obj), spacing)), spacing, y)
      ELSE LET receptacle_id == room.object_to_recep.map[obj.object_id]
               ri == FindReceptacleById(room, receptacle_id)
           IN
           IF ri = 0 THEN [room |-> room, err |-> "AttributeError"]
           ELSE
             LET obj_position == room.receptacles[ri].new_top_item_position IN
             IF obj_position = <<>> THEN [room |-> room, err |-> "TypeError"]
             ELSE
               LET r == ObjectPlot(obj, obj_position)
                   plotted == [room EXCEPT !.objects[k] = r.obj]
               IN
               IF r.err # "" THEN [room |-> room, err |-> r.err]
               ELSE IF ~HasTextPosition(r.obj)
               THEN [room |-> plotted, err |-> "AttributeError"]
               ELSE PlotObjects(
                      [plotted EXCEPT !.receptacles[ri].new_top_item_position =
                          <<obj_position[1],
                            RAdd(TextPosition(r.obj)[2], config.object.height)>>],
                      k + 1, offset, spacing, y)

\* the positions in self.objects of the objects that are not mapped to a
\* receptacle (Room.plot, lines 151-158 and 237-240)
UnmappedAt(room) ==
    SelectSeq([k \in DOMAIN room.objects |-> k],
              LAMBDA k : ~IsMapped(room, room.objects[k]))

\* object_widths (line 150-158) and total_object_width (lines 235-240)
UnmappedObjectWidths(room) ==
    RSum([j \in DOMAIN UnmappedAt(room) |-> ObjectWidth(room.objects[UnmappedAt(room)[j]])])

\* Room.plot, lines 148-165: minimum_room_width
MinimumRoomWidth(room) ==
    RMax(IF HasObjects(room)
         THEN RMax(config.room.min_width,
                   RMul(UnmappedObjectWidths(room), config.room.min_width_per_object))
         ELSE config.room.min_width,
         ReceptacleWidths(room))

\* Room.plot, lines 172-185: self.room_width, from its value at line 167
PaddedRoomWidth(room_width, target_width) ==
    RAdd(room_width,
         RMul(R(2),
              IF IsNone(target_width) THEN R(0)
              ELSE RMax(R(0),
                        RDiv(RSub(RSub(target_width, room_width),
                                  RMul(R(2), config.room.horizontal_margin)),
                             R(2)))))

EvenSpacingClamped(room_width, fraction, total, count) ==
    RMax(R(0),
         RDiv(RSub(RSub(room_width, RMul(RMul(fraction, R(2)), room_width)), total),
              R(count + 1)))

\* Room.plot, lines 191-199 and 242-250: the gap between `count` items of total
\* width `total` spread over the room
EvenSpacing(room_width, fraction, total, count) ==
    RDiv(RSub(RSub(room_width, RMul(RMul(fraction, R(2)), room_width)), total),
         R(count + 1))

\* Room.plot, lines 189-231: the receptacles are drawn and the sizes set
RoomPlotReceptacles(room, new_position, room_width, spacing) ==
    [room EXCEPT
       !.room_width = room_width,
       !.receptacles =
           PlotReceptacles(
             room.receptacles, 1,
             RAdd(RAdd(new_position[1], spacing),
                  RMul(config.room.receptacle_horizontal_margin_fraction, room_width)),
             spacing, RAdd(new_position[2], config.room.bottom_pad)),
       !.width = RAdd(room_width, RMul(R(2), config.room.horizontal_margin)),
       !.room_height = RAdd(RAdd(config.room.full_height, config.room.bottom_pad),
                            config.room.top_pad)]

\* Room.plot, lines 232-283: the objects are drawn, or else the height is set
RoomPlotObjects(room, new_position, room_width, spacing) ==
    IF HasObjects(room)
    THEN PlotObjects(room, 1,
                     RAdd(RAdd(new_position[1],
                               RMul(config.room.object_horizontal_margin_fraction,
                                    room_width)),
                          spacing),
                     spacing,
                     RAdd(RAdd(new_position[2], config.room.bottom_pad),
                          RMul(config.room.full_height, config.room.objects_height)))
    ELSE LET room_height ==
                 IF ~room.use_full_height
                 THEN RAdd(RAdd(config.room.half_height, config.room.bottom_pad),
                           config.room.top_pad)
                 ELSE room.room_height
         IN [room |-> [room EXCEPT
                         !.room_height = room_height,
                         !.height = RAdd(room_height,
                                         RMul(R(2), config.room.vertical_margin))],
             err |-> ""]

\* Room.plot, lines 285-288: self.center_position, unless an exception was raised
RoomPlotCenter(filled, new_position, room_width) ==
    IF filled.err # "" THEN filled
    ELSE [room |-> [filled.room EXCEPT !.center_position =
                      <<RAdd(new_position[1], RDiv(room_width, R(2))),
                        RAdd(RAdd(new_position[2], config.room.bottom_pad),
                             IF filled.room.use_full_height
                             THEN RMul(config.room.placeholder_height_if_full,
                                       config.room.full_height)
                             ELSE RMul(config.room.placeholder_height_if_half,
                                       config.room.half_height))>>],
          err |-> ""]

\* Room.plot from line 189 on, new_position and self.room_width being computed
RoomPlotAt(room, new_position, room_width) ==
    RoomPlotCenter(
      RoomPlotObjects(
        RoomPlotReceptacles(
          room, new_position, room_width,
          EvenSpacing(room_width, config.room.receptacle_horizontal_margin_fraction,
                      ReceptacleWidths(room), Len(room.receptacles))),
        new_position, room_width,
        EvenSpacing(room_width, config.room.object_horizontal_margin_fraction,
                    UnmappedObjectWidths(room), Len(UnmappedAt(room)))),
      new_position, room_width)

\* Room.plot(position, ax, target_width):
\* [room |-> the room afterwards, err |-> "" or the exception raised]
RoomPlot(room, position, target_width) ==
    RoomPlotAt(room,
               <<RAdd(position[1], config.room.horizontal_margin),
                 RAdd(position[2], config.room.vertical_margin)>>,
               PaddedRoomWidth(RAdd(RAdd(MinimumRoomWidth(room), config.room.left_pad),
                                    config.room.right_pad),
                               target_width))


(***************************************************************************)
(* The rooms scenes are built from, and the instructions.                  *)
(***************************************************************************)
NoMap == [none |-> TRUE, map |-> <<>>]

Kitchen ==
    MkRoom(S_kitchen_0, <<MkReceptacle(S_fridge_0, R(160), R(80))>>, <<>>,
           FALSE, FALSE, NoMap)
Bedroom ==
    MkRoom(S_bedroom_0, <<>>, <<MkObject(S_apple_0, FALSE), MkObject(S_cup_0, FALSE)>>,
           FALSE, FALSE, NoMap)
Hall ==
    MkRoom(S_hall_0, <<MkReceptacle(S_table_0, R(40), R(40))>>,
           <<MkObject(S_cup_0, FALSE)>>, FALSE, FALSE,
           [none |-> FALSE, map |-> [o \in {S_cup_0} |-> S_table_0]])
Closet ==
    MkRoom(S_closet_0, <<MkReceptacle(S_shelf_0, R(40), R(60))>>, <<>>,
           FALSE, FALSE, NoMap)

RoomLibrary == <<Kitchen, Bedroom, Hall, Closet>>

\* two more rooms for the direct calls of Room.plot: one receptacle a little
\* wider than min_width, and a wide receptacle that two objects are mapped to
Pantry ==
    MkRoom(S_pantry_0, <<MkReceptacle(S_rack_0, R(70), R(60))>>, <<>>,
           FALSE, FALSE, NoMap)
Study ==
    MkRoom(S_study_0, <<MkReceptacle(S_desk_0, R(160), R(40))>>,
           <<MkObject(S_cup_0, FALSE), MkObject(S_apple_0, FALSE)>>, FALSE, FALSE,
           [none |-> FALSE, map |-> [o \in {S_cup_0, S_apple_0} |-> S_desk_0]])

UnitRooms == RoomLibrary \o <<Pantry, Study>>

\* every list of at most MaxRooms different rooms of the library
RoomLists ==
    {[k \in DOMAIN ix |-> RoomLibrary[ix[k]]] :
        ix \in {s \in UNION {[1..n -> DOMAIN RoomLibrary] : n \in 1..MaxRooms} :
                  \A a, b \in DOMAIN s : a # b => s[a] # s[b]}}

I_empty == <<>>
I_fridge == <<"p","u","t"," ","t","h","e"," ","a","p","p","l","e"," ","i","n"," ",
              "t","h","e"," ","f","r","i","d","g","e">>
I_table == <<"C","l","e","a","n"," ","t","h","e"," ","T","a","b","l","e",".">>
\* "cup" is inside the keyword "cupboards"
I_cupboards == <<"o","p","e","n"," ","t","h","e"," ","c","u","p","b","o","a","r","d","s",".">>

Instructions == {I_empty, I_fridge, I_table, I_cupboards}

(***************************************************************************)
(* Scene.sort_rooms (scene.py).                                            *)
(***************************************************************************)
\* keywords = [word.lower().strip(".") for word in instruction.split()]
Keywords(instruction) ==
    LET words == SplitWords(instruction)
    IN  [k \in DOMAIN words |-> Strip(Lower(words[k]), ".")]

\* a variant of Matches that looks for the keyword inside the phrase
MatchesReversed(id, keywords) ==
    Cardinality({k \in DOMAIN keywords : IsSubstring(keywords[k], Phrase(id))})

\* sum(" ".join(id.split("_")[:-1]) in keyword for keyword in keywords)
Matches(id, keywords) ==
    Cardinality({k \in DOMAIN keywords : IsSubstring(Phrase(id), keywords[k])})

RECURSIVE SumNat(_)
SumNat(s) == IF s = <<>> THEN 0 ELSE Head(s) + SumNat(Tail(s))

\* the score sort_rooms gives one room
RelevanceScore(room, keywords) ==
    Matches(room.room_id, keywords)
    + SumNat([k \in DOMAIN room.receptacles |->
                Matches(room.receptacles[k].receptacle_id, keywords)])
    + (IF HasObjects(room)
       THEN SumNat([k \in DOMAIN room.objects |->
                      Matches(room.objects[k].object_id, keywords)])
       ELSE 0)

\* a variant of InsertByScore that puts a room before the rooms it ties with
InsertBeforeTies(sorted, x, score) ==
    LET before == {k \in DOMAIN sorted : score[sorted[k]] > score[x]}
        n == Cardinality(before)
    IN  SubSeq(sorted, 1, n) \o <<x>> \o SubSeq(sorted, n + 1, Len(sorted))

\* sorted(..., reverse=True) is stable: x goes behind every room already placed
\* whose score is not smaller
InsertByScore(sorted, x, score) ==
    LET before == {k \in DOMAIN sorted : score[sorted[k]] >= score[x]}
        n == Cardinality(before)
    IN  SubSeq(sorted, 1, n) \o <<x>> \o SubSeq(sorted, n + 1, Len(sorted))

RECURSIVE SortByScore(_, _)
\* sorted(relevance_scores.keys(), key=..., reverse=True) over the indices order
SortByScore(order, score) ==
    IF order = <<>> THEN <<>>
    ELSE InsertByScore(SortByScore(ButLast(order), score), order[Len(order)], score)

\* the local relevance_scores of sort_rooms, by position in rooms
RelevanceScores(rooms, instruction) ==
    [k \in DOMAIN rooms |-> RelevanceScore(rooms[k], Keywords(instruction))]

\* Scene.sort_rooms: the positions of rooms in the order returned
SortOrder(rooms, instruction) ==
    IF instruction = <<>> THEN [k \in DOMAIN rooms |-> k]
    ELSE SortByScore([k \in DOMAIN rooms |-> k], RelevanceScores(rooms, instruction))

\* Scene.sort_rooms
SortRooms(rooms, instruction) ==
    LET order == SortOrder(rooms, instruction)
    IN  [k \in DOMAIN order |-> rooms[order[k]]]


(***************************************************************************)
(* Propositions and constraints handed to Scene.plot.                      *)
(***************************************************************************)
Prop(function_name, object_names, receptacle_names, room_names, number) ==
    [function_name |-> function_name, object_names |-> object_names,
     receptacle_names |-> receptacle_names, room_names |-> room_names,
     number |-> number,
     entity_handles_a_names_and_types |-> <<>>,
     entity_handles_b_names_and_types |-> <<>>]

P_on_top == Prop("is_on_top", <<S_apple_0>>, <<S_fridge_0>>, <<>>, 1)
P_inside == Prop("is_inside", <<S_apple_0, S_cup_0>>, <<S_fridge_0>>, <<>>, 1)
P_in_room == Prop("is_in_room", <<S_apple_0>>, <<>>, <<S_kitchen_0>>, 1)
P_on_floor == Prop("is_on_floor", <<S_apple_0>>, <<>>, <<>>, 1)
P_next_to ==
    [Prop("is_next_to", <<>>, <<>>, <<>>, 1) EXCEPT
       !.entity_handles_a_names_and_types = <<S_apple_0>>,
       !.entity_handles_b_names_and_types = <<S_fridge_0>>]
P_unknown == Prop("is_clean", <<S_apple_0>>, <<>>, <<>>, 1)
\* propositions that name, next to ids of the scene, ids found in no room
P_on_top_missing ==
    Prop("is_on_top", <<S_ghost_0, S_apple_0>>, <<S_crate_0, S_fridge_0>>, <<>>, 2)
P_in_room_missing ==
    Prop("is_in_room", <<S_apple_0, S_ghost_0>>, <<>>, <<S_attic_0, S_kitchen_0>>, 2)
\* a proposition that mentions the kitchen alone
P_on_top_fridge == Prop("is_on_top", <<S_ghost_0>>, <<S_fridge_0>>, <<>>, 1)

\* the keys of prop["args"]: an is_next_to proposition carries no object_names
HasObjectNames(prop) == prop.function_name # "is_next_to"

KnownFunctionNames == {"is_on_top", "is_inside", "is_in_room", "is_on_floor", "is_next_to"}

PropositionLists ==
    {<<P_on_top>>, <<P_inside>>, <<P_in_room>>, <<P_on_floor>>, <<P_next_to>>,
     <<P_unknown>>, <<P_on_top, P_in_room>>, <<P_inside, P_on_floor>>,
     <<P_on_top, P_next_to>>, <<P_on_top, P_unknown>>, <<P_in_room, P_in_room>>,
     <<P_on_top_missing>>, <<P_in_room_missing>>, <<P_on_top_fridge>>}

TerminalConstraint == [type |-> "TerminalSatisfactionConstraint", toposort |-> <<>>]
TemporalConstraint(toposort) == [type |-> "TemporalConstraint", toposort |-> toposort]

\* the constraint lists tried with n propositions: no temporal constraint, an
\* empty toposort, one level per proposition, one level holding them all,
\* and two lists without a TerminalSatisfactionConstraint
ConstraintLists(n) ==
    {<<TerminalConstraint>>,
     <<TerminalConstraint, TemporalConstraint(<<>>)>>,
     <<TerminalConstraint, TemporalConstraint([k \in 1..n |-> <<k>>])>>,
     <<TemporalConstraint(<<[k \in 1..n |-> k]>>), TerminalConstraint>>,
     <<>>,
     <<TemporalConstraint([k \in 1..n |-> <<k>>])>>}

(***************************************************************************)
(* Scene.plot_for_propositions, lines 463-543: reading the propositions    *)
(* and setting the highlight flags.                                        *)
(***************************************************************************)
NoClass ==
    [err |-> "", mentioned_objs |-> <<>>, on_floor_objs |-> <<>>,
     mentioned_receps |-> <<>>, mentioned_rooms |-> <<>>, is_next_tos |-> <<>>]

RECURSIVE ClassifyFrom(_, _, _)
ClassifyFrom(props, k, acc) ==
    IF k > Len(props) THEN acc
    ELSE
      LET prop == props[k]
          fn == prop.function_name
      IN
      IF fn \in {"is_on_top", "is_inside"}
      THEN ClassifyFrom(props, k + 1,
             [acc EXCEPT
                !.mentioned_objs = @ \o prop.object_names,
                !.mentioned_receps =
                    @ \o [j \in DOMAIN prop.receptacle_names |->
                            <<fn, prop.receptacle_names[j]>>]])
      ELSE IF fn = "is_in_room"
      THEN ClassifyFrom(props, k + 1,
             [acc EXCEPT
                !.mentioned_objs = @ \o prop.object_names,
                !.mentioned_rooms = @ \o prop.room_names])
      ELSE IF fn = "is_on_floor"
      THEN ClassifyFrom(props, k + 1,
             [acc EXCEPT !.on_floor_objs = @ \o prop.object_names])
      ELSE IF fn = "is_next_to"
      THEN ClassifyFrom(props, k + 1,
             [acc EXCEPT !.is_next_tos =
                Append(@, <<prop.entity_handles_a_names_and_types,
                            prop.entity_handles_b_names_and_types,
                            prop.number>>)])
      ELSE [acc EXCEPT !.err = "NotImplementedError"]

RECURSIVE ClassifySkippingFrom(_, _, _)
ClassifySkippingFrom(props, k, acc) ==
    IF k > Len(props) THEN acc
    ELSE IF props[k].function_name \in KnownFunctionNames
    THEN ClassifySkippingFrom(props, k + 1, ClassifyFrom(<<props[k]>>, 1, acc))
    ELSE ClassifySkippingFrom(props, k + 1, acc)

\* a variant of Classify that passes over a proposition it does not know
ClassifySkipping(props) == ClassifySkippingFrom(props, 1, NoClass)

\* the loop over propositions of plot_for_propositions
Classify(props) == ClassifyFrom(props, 1, NoClass)

\* lines 499-503
SetPlotPlaceholder(rooms, mentioned_rooms) ==
    [k \in DOMAIN rooms |->
       [rooms[k] EXCEPT !.plot_placeholder = (rooms[k].room_id \in Range(mentioned_rooms))]]

\* a variant of ResetRoomFlags that leaves the flags of the receptacles alone
ResetObjectFlags(room) ==
    [room EXCEPT
       !.objects =
           [j \in DOMAIN room.objects |->
              [room.objects[j] EXCEPT !.is_on_floor = FALSE]]]

\* lines 506-510 for one room
ResetRoomFlags(room) ==
    [room EXCEPT
       !.receptacles =
           [j \in DOMAIN room.receptacles |->
              [room.receptacles[j] EXCEPT !.plot_top_placeholder = FALSE,
                                          !.plot_center_placeholder = FALSE]],
       !.objects =
           [j \in DOMAIN room.objects |->
              [room.objects[j] EXCEPT !.is_on_floor = FALSE]]]

RECURSIVE ResetFlagsFrom(_, _)
\* lines 505-510: `for obj in room.objects` raises TypeError on None, after the
\* receptacles of that room have been reset
ResetFlagsFrom(rooms, k) ==
    IF k > Len(rooms) THEN [rooms |-> rooms, err |-> ""]
    ELSE IF rooms[k].objects_none
    THEN [rooms |-> [rooms EXCEPT ![k] = ResetRoomFlags(rooms[k])], err |-> "TypeError"]
    ELSE ResetFlagsFrom([rooms EXCEPT ![k] = ResetRoomFlags(rooms[k])], k + 1)

\* lines 513-533 for one room
MarkRoom(room, cls) ==
    LET floor == {FindObjectById(room, cls.on_floor_objs[j]) :
                     j \in DOMAIN cls.on_floor_objs} \ {0}
        tops == {FindReceptacleById(room, cls.mentioned_receps[j][2]) :
                     j \in {i \in DOMAIN cls.mentioned_receps :
                              cls.mentioned_receps[i][1] = "is_on_top"}} \ {0}
        centers == {FindReceptacleById(room, cls.mentioned_receps[j][2]) :
                     j \in {i \in DOMAIN cls.mentioned_receps :
                              cls.mentioned_receps[i][1] = "is_inside"}} \ {0}
        objs == {FindObjectById(room, cls.mentioned_objs[j]) :
                     j \in DOMAIN cls.mentioned_objs} \ {0}
    IN  [room |->
           [room EXCEPT
              !.objects =
                  [j \in DOMAIN room.objects |->
                     IF j \in floor THEN [room.objects[j] EXCEPT !.is_on_floor = TRUE]
                     ELSE room.objects[j]],
              !.receptacles =
                  [j \in DOMAIN room.receptacles |->
                     [room.receptacles[j] EXCEPT
                        !.plot_top_placeholder = (@ \/ j \in tops),
                        !.plot_center_placeholder = (@ \/ j \in centers)]]],
         mentioned |-> (floor \cup tops \cup centers \cup objs) # {}]

RECURSIVE MarkFrom(_, _, _, _)
\* lines 512-537: [rooms, mentioned_rooms] afterwards
MarkFrom(rooms, k, cls, mentioned_rooms) ==
    IF k > Len(rooms) THEN [rooms |-> rooms, mentioned_rooms |-> mentioned_rooms]
    ELSE LET m == MarkRoom(rooms[k], cls) IN
         MarkFrom([rooms EXCEPT ![k] = m.room], k + 1, cls,
                  IF m.mentioned /\ rooms[k].room_id \notin Range(mentioned_rooms)
                  THEN Append(mentioned_rooms, rooms[k].room_id)
                  ELSE mentioned_rooms)

\* lines 539-543
SetInProposition(rooms, mentioned_rooms) ==
    [k \in DOMAIN rooms |->
       [rooms[k] EXCEPT !.in_proposition = (rooms[k].room_id \in Range(mentioned_rooms))]]

\* lines 499-543: [rooms, mentioned_rooms, err]
UpdateFlags(rooms, cls) ==
    LET reset == ResetFlagsFrom(SetPlotPlaceholder(rooms, cls.mentioned_rooms), 1) IN
    IF reset.err # ""
    THEN [rooms |-> reset.rooms, mentioned_rooms |-> cls.mentioned_rooms, err |-> reset.err]
    ELSE LET marked == MarkFrom(reset.rooms, 1, cls, cls.mentioned_rooms) IN
         [rooms |-> SetInProposition(marked.rooms, marked.mentioned_rooms),
          mentioned_rooms |-> marked.mentioned_rooms, err |-> ""]


(***************************************************************************)
(* Scene: row packing (scene.py, redistribute_target_width_to_rooms and    *)
(* plot_rooms_linear).  A row is a sequence of indices into Scene.rooms.   *)
(***************************************************************************)
\* a variant of RedistributeTargetWidthToRooms that leaves the widths unscaled
RedistributeUnscaled(rooms_to_plot, target_width) ==
    [k \in DOMAIN rooms_to_plot |-> rooms_to_plot[k].width]

\* a variant of RedistributeTargetWidthToRooms that gives every room the same share
RedistributeEqually(rooms_to_plot, target_width) ==
    [k \in DOMAIN rooms_to_plot |-> RDiv(target_width, R(Len(rooms_to_plot)))]

\* Scene.redistribute_target_width_to_rooms, for a row of total width # 0
RedistributeTargetWidthToRooms(rooms_to_plot, target_width) ==
    LET total_width == RSum([k \in DOMAIN rooms_to_plot |-> rooms_to_plot[k].width])
        redistribution_factor == RDiv(target_width, total_width)
    IN  [k \in DOMAIN rooms_to_plot |->
           RMul(rooms_to_plot[k].width, redistribution_factor)]

\* np.any([room.objects is not None and room.objects != [] for room in row])
RoomsHaveObjects(rooms, row) == \E k \in DOMAIN row : HasObjects(rooms[row[k]])

RowHeights(rooms, row) == [k \in DOMAIN row |-> rooms[row[k]].height]
RowWidths(rooms, row) == [k \in DOMAIN row |-> rooms[row[k]].width]

\* one background rectangle of a room on the axes
Plotted(room, position, level) ==
    [room_id |-> room.room_id, x |-> position[1], y |-> position[2],
     width |-> room.width, height |-> room.height,
     top |-> RAdd(RAdd(position[2], config.room.vertical_margin), room.room_height),
     level |-> level]

RECURSIVE PlotRow(_, _, _, _, _, _, _, _, _)
RECURSIVE PlotRowNext(_, _, _, _, _, _, _, _, _, _)
\* `for room in current_rooms_to_plot: ... room.plot(...); current_row_width +=
\* room.width` from position k of the row on.  targets is <<>> when no
\* target_width is passed; ufh is "keep", or the value use_full_height is set to
\* before each plot.  [rooms, x, plots, err] afterwards.
PlotRow(rooms, row, k, x, y, targets, ufh, plots, level) ==
    IF k > Len(row) THEN [rooms |-> rooms, x |-> x, plots |-> plots, err |-> ""]
    ELSE PlotRowNext(rooms, row, k, x, y, targets, ufh, plots, level,
                     RoomPlot(IF ufh = "keep" THEN rooms[row[k]]
                              ELSE [rooms[row[k]] EXCEPT !.use_full_height = (ufh = "true")],
                              <<x, y>>,
                              IF targets = <<>> THEN None ELSE targets[k]))

\* the loop body after room.plot has returned r (or raised r.err)
PlotRowNext(rooms, row, k, x, y, targets, ufh, plots, level, r) ==
    IF r.err # ""
    THEN [rooms |-> [rooms EXCEPT ![row[k]] = r.room], x |-> x, plots |-> plots,
          err |-> r.err]
    ELSE PlotRow([rooms EXCEPT ![row[k]] = r.room], row, k + 1,
                 RAdd(x, r.room.width), y, targets, ufh,
                 Append(plots, Plotted(r.room, <<x, y>>, level)), level)

\* a variant of RowMaxHeight for which an empty row has height 0
RowMaxHeightOrZero(rooms, row) ==
    IF row = <<>> THEN [err |-> "", max |-> R(0)]
    ELSE [err |-> "", max |-> RMaxSeq(RowHeights(rooms, row))]

\* max(room.height for room in row): ValueError on an empty row
RowMaxHeight(rooms, row) ==
    IF row = <<>> THEN [err |-> "ValueError", max |-> None]
    ELSE [err |-> "", max |-> RMaxSeq(RowHeights(rooms, row))]

\* lines 380-388 and 417-425: use_full_height and init_size for the rooms of a row
SizedRow(rooms, row) ==
    [k \in DOMAIN rooms |->
       IF k \in Range(row)
       THEN InitSize([rooms[k] EXCEPT !.use_full_height = RoomsHaveObjects(rooms, row)])
       ELSE rooms[k]]

\* lines 404-411 and 440-446: the row has been plotted at the given height
TargetRowFlushed(r, height, scene_width) ==
    [rooms |-> r.rooms, current_row_height |-> height, current_row_width |-> r.x,
     width |-> IF r.err = "" THEN RMax(r.x, scene_width) ELSE scene_width,
     plots |-> r.plots, err |-> r.err]

\* lines 389-411 and 426-446, the rooms of the row being sized
FlushSizedRow(sized, row, current_row_height, target_width, scene_width, plots, level) ==
    LET m == RowMaxHeight(sized, row)
        failed(e) == [rooms |-> sized, current_row_height |-> current_row_height,
                      current_row_width |-> R(0), width |-> scene_width,
                      plots |-> plots, err |-> e]
    IN
    IF m.err # "" THEN failed(m.err)
    ELSE IF RSum(RowWidths(sized, row)) = R(0) THEN failed("ZeroDivisionError")
    ELSE TargetRowFlushed(
           PlotRow(sized, row, 1, R(0), RSub(current_row_height, m.max),
                   RedistributeTargetWidthToRooms([k \in DOMAIN row |-> sized[row[k]]],
                                                  target_width),
                   "keep", plots, level),
           RSub(current_row_height, m.max), scene_width)

\* plot_rooms_linear with a target width, lines 380-413 and 417-446: a row is
\* flushed.  [rooms, current_row_height, current_row_width, width, plots, err]
FlushTargetRow(rooms, row, current_row_height, target_width, scene_width, plots, level) ==
    FlushSizedRow(SizedRow(rooms, row), row, current_row_height, target_width,
                  scene_width, plots, level)

\* lines 326-336 and 343-348: the row has been plotted at the given height
RowFlushed(r, height) ==
    [rooms |-> r.rooms, current_row_height |-> height, plots |-> r.plots,
     err |-> r.err]

\* plot_rooms_linear without a target width, lines 311-336 (in the loop, where
\* use_full_height is set) and 340-348 (after it, where it is kept)
FlushRow(rooms, row, current_row_height, in_loop, plots, level) ==
    LET m == RowMaxHeight(rooms, row) IN
    IF m.err # ""
    THEN [rooms |-> rooms, current_row_height |-> current_row_height,
          plots |-> plots, err |-> m.err]
    ELSE RowFlushed(
           PlotRow(rooms, row, 1, R(0), RSub(current_row_height, m.max), <<>>,
                   IF ~in_loop THEN "keep"
                   ELSE IF RoomsHaveObjects(rooms, row) THEN "true" ELSE "false",
                   plots, level),
           RSub(current_row_height, m.max))

\* the positions in rooms of the rooms whose id is (not) among names, in order
IndicesIn(rooms, names) ==
    SelectSeq([k \in DOMAIN rooms |-> k], LAMBDA k : rooms[k].room_id \in names)
IndicesWhatever(rooms, names) == [k \in DOMAIN rooms |-> k]
IndicesNotIn(rooms, names) ==
    SelectSeq([k \in DOMAIN rooms |-> k], LAMBDA k : rooms[k].room_id \notin names)


(***************************************************************************)
(* Scene: arrows (scene.py, add_arrow, plot_object_to_receptacle_lines and *)
(* plot_object_to_room_lines).                                             *)
(***************************************************************************)
RECURSIVE Flatten(_)
Flatten(ss) == IF ss = <<>> THEN <<>> ELSE Head(ss) \o Flatten(Tail(ss))

Dashed == "(0, (5, 10))"
Solid == "-"

\* the values of color_palette, in order
ColorPalette == <<"#FFFFFF", "#FF7F50", "#FFD700", "#00FFFF", "#98FF98",
                  "#E6E6FA", "#FA8072", "#FFDAB9", "#FFC0CB">>

\* arrow_dir /= np.linalg.norm(arrow_dir) (line 217): numpy divides 0.0 by 0.0
\* to nan (with a RuntimeWarning, no exception); any other tangent becomes a
\* unit vector
Normalized(tangent) ==
    IF tangent = <<R(0), R(0)>> THEN "nan" ELSE "unit"

\* a variant of AddArrow whose control point is offset by dx/2, not abs(dx)/2
AddArrowSigned(obj_loc, room_loc, line_style, color) ==
    LET dx == RSub(room_loc[1], obj_loc[1])
        dy == RSub(room_loc[2], obj_loc[2])
        ctrl_x == RAdd(RDiv(RAdd(obj_loc[1], room_loc[1]), R(2)), RDiv(dy, R(2)))
        ctrl_y == RAdd(RDiv(RAdd(obj_loc[2], room_loc[2]), R(2)), RDiv(dx, R(2)))
        tangent == <<RMul(R(2), RSub(room_loc[1], ctrl_x)),
                     RMul(R(2), RSub(room_loc[2], ctrl_y))>>
    IN  [p0 |-> obj_loc, ctrl |-> <<ctrl_x, ctrl_y>>, p1 |-> room_loc,
         line_style |-> line_style, color |-> color, curved |-> TRUE,
         tangent |-> tangent, arrow_dir |-> Normalized(tangent), head |-> TRUE]

\* Scene.add_arrow(ax, obj_loc, room_loc, line_style, curved=True, color): the
\* curve drawn, with its control point, its tangent at the end point, the
\* direction that tangent is normalized to and the arrowhead added (line 233)
AddArrow(obj_loc, room_loc, line_style, color) ==
    LET dx == RSub(room_loc[1], obj_loc[1])
        dy == RSub(room_loc[2], obj_loc[2])
        ctrl_x == RAdd(RDiv(RAdd(obj_loc[1], room_loc[1]), R(2)), RDiv(dy, R(2)))
        ctrl_y == RAdd(RDiv(RAdd(obj_loc[2], room_loc[2]), R(2)), RDiv(RAbs(dx), R(2)))
        tangent == <<RMul(R(2), RSub(room_loc[1], ctrl_x)),
                     RMul(R(2), RSub(room_loc[2], ctrl_y))>>
    IN  [p0 |-> obj_loc, ctrl |-> <<ctrl_x, ctrl_y>>, p1 |-> room_loc,
         line_style |-> line_style, color |-> color, curved |-> TRUE,
         tangent |-> tangent, arrow_dir |-> Normalized(tangent), head |-> TRUE]

\* the objects room.find_object_by_id finds for a name, over all rooms, in order
FoundObjects(rooms, object_name) ==
    LET hit == SelectSeq([k \in DOMAIN rooms |-> k],
                         LAMBDA k : FindObjectById(rooms[k], object_name) # 0)
    IN  [j \in DOMAIN hit |->
           rooms[hit[j]].objects[FindObjectById(rooms[hit[j]], object_name)]]

\* the receptacles r_room.find_receptacle_by_id finds for a name, in order
FoundReceptacles(rooms, receptacle_name) ==
    LET hit == SelectSeq([k \in DOMAIN rooms |-> k],
                         LAMBDA k : FindReceptacleById(rooms[k], receptacle_name) # 0)
    IN  [j \in DOMAIN hit |->
           rooms[hit[j]].receptacles[FindReceptacleById(rooms[hit[j]], receptacle_name)]]

\* a variant of LineStyle that dashes the line from `number` names on
LineStyleFromNumber(object_names, number) ==
    IF Len(object_names) >= number THEN Dashed ELSE Solid

\* lines 114-119, 129-134 and 166-169
LineStyle(object_names, number) ==
    IF Len(object_names) > number THEN Dashed ELSE Solid

\* plot_object_to_receptacle_lines, lines 104-142: the arrows of one object
\* and one receptacle name
ReceptacleArrows(rooms, object_obj, receptacle_name, object_names, number, function_name, color) ==
    LET receptacle_objs == FoundReceptacles(rooms, receptacle_name)
        anchor(r) == IF function_name = "is_inside" THEN r.center_placeholder_position
                     ELSE r.top_placeholder_position
    IN  IF function_name \notin {"is_inside", "is_on_top"} THEN <<>>
        ELSE [j \in DOMAIN receptacle_objs |->
                AddArrow(object_obj.center_position, anchor(receptacle_objs[j]),
                         LineStyle(object_names, number), color)]

\* Scene.plot_object_to_receptacle_lines: the arrows added, in order
PlotObjectToReceptacleLines(rooms, object_names, receptacle_names, number, function_name, color) ==
    Flatten([a \in DOMAIN object_names |->
      LET objs == FoundObjects(rooms, object_names[a]) IN
      Flatten([b \in DOMAIN objs |->
        Flatten([c \in DOMAIN receptacle_names |->
          ReceptacleArrows(rooms, objs[b], receptacle_names[c], object_names,
                           number, function_name, color)])])])

\* a variant of PlotObjectToRoomLines that draws nothing unless every name is
\* found
PlotObjectToRoomLinesStrict(rooms, object_names, room_names, number, color) ==
    IF \/ \E a \in DOMAIN object_names : FoundObjects(rooms, object_names[a]) = <<>>
       \/ \E b \in DOMAIN room_names : IndicesIn(rooms, {room_names[b]}) = <<>>
    THEN <<>>
    ELSE Flatten([a \in DOMAIN object_names |->
           LET objs == FoundObjects(rooms, object_names[a]) IN
           Flatten([c \in DOMAIN objs |->
             Flatten([b \in DOMAIN room_names |->
               LET hit == IndicesIn(rooms, {room_names[b]}) IN
               [j \in DOMAIN hit |->
                  AddArrow(objs[c].center_position, rooms[hit[j]].center_position,
                           LineStyle(object_names, number), color)]])])])

\* Scene.plot_object_to_room_lines: the arrows added, in order
PlotObjectToRoomLines(rooms, object_names, room_names, number, color) ==
    LET source_objects ==
            Flatten([a \in DOMAIN object_names |-> FoundObjects(rooms, object_names[a])])
        target_rooms ==
            Flatten([b \in DOMAIN room_names |->
                LET hit == IndicesIn(rooms, {room_names[b]})
                IN  [j \in DOMAIN hit |-> rooms[hit[j]]]])
    IN  Flatten([a \in DOMAIN source_objects |->
          [b \in DOMAIN target_rooms |->
             AddArrow(source_objects[a].center_position,
                      target_rooms[b].center_position,
                      LineStyle(object_names, number), color)]])

RECURSIVE LinesFrom(_, _, _, _)
\* plot_for_propositions, lines 576-599: the arrows of all propositions
LinesFrom(rooms, propositions, k, color_index) ==
    IF k > Len(propositions) THEN <<>>
    ELSE
      LET p == propositions[k]
          color == ColorPalette[(color_index % Len(ColorPalette)) + 1]
      IN
      IF ~HasObjectNames(p) THEN LinesFrom(rooms, propositions, k + 1, color_index)
      ELSE (IF p.function_name \in {"is_inside", "is_on_top"}
            THEN PlotObjectToReceptacleLines(rooms, p.object_names, p.receptacle_names,
                                             p.number, p.function_name, color)
            ELSE IF p.function_name = "is_in_room"
            THEN PlotObjectToRoomLines(rooms, p.object_names, p.room_names,
                                       p.number, color)
            ELSE <<>>)
           \o LinesFrom(rooms, propositions, k + 1, color_index + 1)


(***************************************************************************)
(* Scene.__init__ and the calls made on a Scene.                           *)
(***************************************************************************)
\* Scene.__init__(config, rooms, instruction)
MkScene(rooms, instruction) ==
    [rooms |-> SortRooms(rooms, instruction), instruction |-> instruction,
     width |-> None, height |-> None]

NoCanvas == [plots |-> <<>>, arrows |-> <<>>, hlines |-> <<>>, legend |-> <<>>,
             ylim |-> <<>>]

\* no call in progress
IdleFrame ==
    [pc |-> "idle", err |-> "", at |-> "", entry |-> "",
     \* Scene.plot
     propositions |-> <<>>, toposort |-> <<>>, level_idx |-> 0,
     all_mentioned_none |-> TRUE, all_mentioned_rooms |-> {},
     min_lower |-> R(0), max_upper |-> R(0), levels |-> <<>>,
     \* plot_for_propositions
     current_propositions |-> <<>>, height_offset |-> R(0),
     mentioned_rooms |-> <<>>, is_next_tos |-> <<>>,
     \* plot_rooms_linear
     target_width |-> None, all_rooms |-> <<>>, i |-> 1,
     current_rooms_to_plot |-> <<>>, current_row_width |-> R(0),
     current_row_height |-> R(0), first_row_height |-> None,
     height_lower |-> None, height_upper |-> None,
     \* history of the current plot_rooms_linear call: loop iterations made,
     \* rows flushed
     iters |-> 0, rows |-> <<>>,
     \* whether the constraints given to Scene.plot held a
     \* TerminalSatisfactionConstraint
     terminal |-> FALSE]

NoProbe == [op |-> "", args |-> <<>>, result |-> <<>>, calls |-> 0]

Raise(e, where) == [frame EXCEPT !.pc = "error", !.err = e, !.at = where]

\* Scene.plot, lines 661-699: the rooms named by any proposition
AllMentionedRooms(rooms, propositions) ==
    LET has_objs == {k \in DOMAIN propositions :
                       propositions[k].function_name \in
                         {"is_on_top", "is_inside", "is_in_room", "is_on_floor"}}
        objs == UNION {Range(propositions[k].object_names) : k \in has_objs}
        receps == UNION {Range(propositions[k].receptacle_names) :
                           k \in {j \in DOMAIN propositions :
                                    propositions[j].function_name \in
                                      {"is_on_top", "is_inside"}}}
        named == UNION {Range(propositions[k].room_names) :
                           k \in {j \in DOMAIN propositions :
                                    propositions[j].function_name = "is_in_room"}}
    IN  named \cup
        {rooms[k].room_id : k \in {j \in DOMAIN rooms :
            \/ \E o \in objs : FindObjectById(rooms[j], o) # 0
            \/ \E r \in receps : FindReceptacleById(rooms[j], r) # 0}}

\* Scene.plot, lines 665-685: the function names its first loop accepts
PlotKnows(function_name) ==
    function_name \in {"is_on_top", "is_inside", "is_in_room", "is_on_floor"}

\* Scene.plot, lines 653-656: the toposort of the last TemporalConstraint
ToposortOf(constraints) ==
    LET temporal == SelectSeq([k \in DOMAIN constraints |-> k],
                              LAMBDA k : constraints[k].type = "TemporalConstraint")
    IN  IF temporal = <<>> THEN <<>>
        ELSE constraints[temporal[Len(temporal)]].toposort

HasTerminal(constraints) ==
    \E k \in DOMAIN constraints : constraints[k].type = "TerminalSatisfactionConstraint"

\* Scene.plot(receptacle_icon_mapping, propositions, constraints) up to the
\* first call of plot_for_propositions
ScenePlot(propositions, constraints) ==
    /\ frame.pc = "idle"
    /\ UNCHANGED <<config, scene, probe>>
    /\ IF constraints.none
       THEN /\ frame' = [Raise("AssertionError", "plot") EXCEPT !.entry = "plot"]
            /\ UNCHANGED canvas
       ELSE LET toposort == ToposortOf(constraints.list)
                started == [frame EXCEPT !.entry = "plot", !.pc = "level",
                                         !.propositions = propositions,
                                         !.toposort = toposort,
                                         !.terminal = HasTerminal(constraints.list)]
            IN
            IF toposort # <<>>
            THEN IF \E k \in DOMAIN propositions : ~PlotKnows(propositions[k].function_name)
                 THEN /\ frame' = [Raise("NotImplementedError", "plot") EXCEPT
                                     !.entry = "plot", !.propositions = propositions,
                                     !.toposort = toposort,
                                     !.terminal = HasTerminal(constraints.list)]
                      /\ UNCHANGED canvas
                 ELSE /\ frame' = [started EXCEPT
                                     !.level_idx = 1,
                                     !.all_mentioned_none = FALSE,
                                     !.all_mentioned_rooms =
                                         AllMentionedRooms(scene.rooms, propositions)]
                      /\ canvas' = NoCanvas
            ELSE /\ frame' = started
                 /\ UNCHANGED canvas

\* plot_for_propositions called by Scene.plot (for the current level, or for
\* all propositions) or directly: lines 463-552
PlotForPropositions ==
    /\ frame.pc = "level"
    /\ UNCHANGED <<config, probe>>
    /\ LET staged == frame.level_idx # 0
           current_propositions ==
               IF staged
               THEN [j \in DOMAIN frame.toposort[frame.level_idx] |->
                       frame.propositions[frame.toposort[frame.level_idx][j]]]
               ELSE frame.propositions
           called == [frame EXCEPT
                        !.current_propositions = current_propositions,
                        !.height_offset = IF staged THEN frame.min_lower ELSE R(0)]
       IN
       \E cls \in {Classify(current_propositions)} :
       \E flags \in {UpdateFlags(scene.rooms, cls)} :
       IF cls.err # ""
       THEN /\ frame' = [called EXCEPT !.pc = "error", !.err = cls.err,
                                       !.at = "plot_for_propositions"]
            /\ UNCHANGED <<scene, canvas>>
       ELSE IF flags.err # ""
       THEN /\ frame' = [called EXCEPT !.pc = "error", !.err = flags.err,
                                       !.at = "plot_for_propositions"]
            /\ scene' = [scene EXCEPT !.rooms = flags.rooms]
            /\ UNCHANGED canvas
       ELSE /\ frame' = [called EXCEPT !.pc = "layout",
                                       !.mentioned_rooms = flags.mentioned_rooms,
                                       !.is_next_tos = cls.is_next_tos]
            /\ scene' = [scene EXCEPT !.rooms = flags.rooms]
            /\ canvas' = IF staged THEN canvas ELSE NoCanvas


\* a variant of ResizedRooms that keeps the plot order as the order of the rooms
ResizedInPlotOrder(rooms, all_rooms) ==
    [k \in DOMAIN all_rooms |-> InitSize(rooms[all_rooms[k]])]

\* a variant of ResizedRooms that leaves the sizes of the last pass in place
ResizedNot(rooms, all_rooms) == rooms

\* plot_rooms_linear, lines 357-368: all_rooms is a local list; self.rooms keeps
\* its order and every room of it gets init_size()
ResizedRooms(rooms, all_rooms) ==
    [k \in DOMAIN rooms |-> InitSize(rooms[k])]

\* the loop of plot_rooms_linear makes at most this many iterations in the model
MaxIters == 2 * MaxRooms + 2

\* plot_rooms_linear(mentioned_rooms, ax, target_width, height_offset,
\* all_mentioned_rooms) up to its loop: lines 282-303 and 356-373
PlotRoomsLinear ==
    /\ frame.pc = "layout"
    /\ UNCHANGED <<config, probe>>
    /\ LET target_width == config.scene.target_width
           entered == [frame EXCEPT
                         !.pc = "rows", !.target_width = target_width,
                         !.i = 1, !.current_rooms_to_plot = <<>>,
                         !.current_row_width = R(0),
                         !.current_row_height = frame.height_offset,
                         !.first_row_height = None,
                         !.height_lower = None, !.height_upper = None,
                         !.iters = 0, !.rows = <<>>]
       IN
       IF IsNone(target_width)
       THEN LET first == IndicesIn(scene.rooms, Range(frame.mentioned_rooms)) IN
            \E r \in {PlotRow(scene.rooms, first, 1, R(0), R(0), <<>>, "keep",
                              canvas.plots, frame.level_idx)} :
            \E m \in {RowMaxHeight(r.rooms, first)} :
            /\ canvas' = [canvas EXCEPT !.plots = r.plots]
            /\ IF r.err # ""
               THEN /\ frame' = Raise(r.err, "plot_rooms_linear")
                    /\ scene' = [scene EXCEPT !.rooms = r.rooms]
               ELSE /\ scene' = [scene EXCEPT !.rooms = r.rooms, !.width = r.x]
                    /\ frame' =
                         IF m.err # "" THEN Raise(m.err, "plot_rooms_linear")
                         ELSE [entered EXCEPT
                                 !.all_rooms = [k \in DOMAIN scene.rooms |-> k],
                                 !.first_row_height = m.max]
       ELSE LET names == IF frame.all_mentioned_none
                         THEN Range(frame.mentioned_rooms)
                         ELSE frame.all_mentioned_rooms
            IN
            /\ frame' = [entered EXCEPT
                           !.all_rooms = IndicesIn(scene.rooms, names)
                                         \o IndicesNotIn(scene.rooms, names)]
            /\ scene' = [scene EXCEPT
                           !.width = target_width,
                           !.rooms = ResizedRooms(scene.rooms,
                                                  IndicesIn(scene.rooms, names)
                                                  \o IndicesNotIn(scene.rooms, names))]
            /\ UNCHANGED canvas

FitsRowAlone(room_width, current_row_width, canvas_width) ==
    RLe(room_width, canvas_width)

\* `room.width + current_row_width <= self.width`: lines 307 and 376
FitsRow(room_width, current_row_width, canvas_width) ==
    RLe(RAdd(room_width, current_row_width), canvas_width)

\* one iteration of `while i < len(...)`: lines 304-338 and 374-415
RowStep ==
    /\ frame.pc = "rows"
    /\ frame.i <= Len(frame.all_rooms)
    /\ frame.iters < MaxIters
    /\ UNCHANGED <<config, probe>>
    /\ LET room == scene.rooms[frame.all_rooms[frame.i]]
           row == frame.current_rooms_to_plot
           counted == [frame EXCEPT !.iters = @ + 1]
           appended == [counted EXCEPT
                          !.current_row_width = RAdd(room.width, @),
                          !.current_rooms_to_plot = Append(@, frame.all_rooms[frame.i]),
                          !.i = @ + 1]
           flushed(height) == [counted EXCEPT
                                 !.current_row_height = height,
                                 !.current_row_width = R(0),
                                 !.current_rooms_to_plot = <<>>,
                                 !.rows = Append(@, row)]
           failed(e) == [counted EXCEPT !.pc = "error", !.err = e,
                                        !.at = "plot_rooms_linear"]
       IN
       IF IsNone(frame.target_width)
       THEN IF room.room_id \in Range(frame.mentioned_rooms)
            THEN /\ frame' = [counted EXCEPT !.i = @ + 1]
                 /\ UNCHANGED <<scene, canvas>>
            ELSE IF FitsRow(room.width, frame.current_row_width, scene.width)
            THEN /\ frame' = appended
                 /\ UNCHANGED <<scene, canvas>>
            ELSE \E f \in {FlushRow(scene.rooms, row, frame.current_row_height, TRUE,
                                      canvas.plots, frame.level_idx)} :
                     /\ frame' = IF f.err # "" THEN failed(f.err)
                                 ELSE flushed(f.current_row_height)
                     /\ scene' = [scene EXCEPT !.rooms = f.rooms]
                     /\ canvas' = [canvas EXCEPT !.plots = f.plots]
       ELSE IF FitsRow(room.width, frame.current_row_width, scene.width)
            THEN /\ frame' = appended
                 /\ UNCHANGED <<scene, canvas>>
            ELSE \E f \in {FlushTargetRow(scene.rooms, row, frame.current_row_height,
                                            frame.target_width, scene.width,
                                            canvas.plots, frame.level_idx)} :
                     /\ frame' = IF f.err # "" THEN failed(f.err)
                                 ELSE flushed(f.current_row_height)
                     /\ scene' = [scene EXCEPT !.rooms = f.rooms, !.width = f.width]
                     /\ canvas' = [canvas EXCEPT !.plots = f.plots]

\* plot_rooms_linear after its loop: lines 340-353 and 417-452
RowsExit ==
    /\ frame.pc = "rows"
    /\ frame.i > Len(frame.all_rooms)
    /\ UNCHANGED <<config, probe>>
    /\ LET row == frame.current_rooms_to_plot
           returned(height, upper) ==
               [frame EXCEPT !.pc = "lines",
                             !.current_row_height = height,
                             !.rows = Append(@, row),
                             !.height_lower = height, !.height_upper = upper]
       IN
       IF IsNone(frame.target_width)
       THEN \E f \in {FlushRow(scene.rooms, row, frame.current_row_height, FALSE,
                                 canvas.plots, frame.level_idx)} :
                /\ frame' = IF f.err # "" THEN Raise(f.err, "plot_rooms_linear")
                            ELSE returned(f.current_row_height, frame.first_row_height)
                /\ scene' = [scene EXCEPT !.rooms = f.rooms]
                /\ canvas' = [canvas EXCEPT !.plots = f.plots]
       ELSE \E f \in {FlushTargetRow(scene.rooms, row, frame.current_row_height,
                                       frame.target_width, scene.width,
                                       canvas.plots, frame.level_idx)} :
                /\ frame' = IF f.err # "" THEN Raise(f.err, "plot_rooms_linear")
                            ELSE returned(f.current_row_height, R(0))
                /\ scene' = [scene EXCEPT !.rooms = f.rooms, !.width = f.width]
                /\ canvas' = [canvas EXCEPT !.plots = f.plots]

\* the gap Scene.plot leaves under a level for the divider line (line 733)
DividerGap == R(40)

\* plot_for_propositions after plot_rooms_linear has returned (lines 561-635),
\* and the rest of the loop body of Scene.plot (lines 724-743)
DrawLines ==
    /\ frame.pc = "lines"
    /\ UNCHANGED <<config, probe>>
    /\ LET staged == frame.level_idx # 0
           max_upper == RMax(frame.height_upper, frame.max_upper)
           min_lower == RMin(RSub(frame.height_lower, DividerGap), frame.min_lower)
           last == frame.level_idx = Len(frame.toposort)
       IN
       \E lines \in {LinesFrom(scene.rooms, frame.current_propositions, 1, 0)} :
       /\ canvas' = [canvas EXCEPT
                       !.arrows = @ \o [k \in DOMAIN lines |->
                                          [level |-> frame.level_idx, arrow |-> lines[k]]],
                       !.legend = IF frame.is_next_tos # <<>>
                                  THEN Append(@, frame.is_next_tos) ELSE @,
                       !.ylim = <<frame.height_lower, frame.height_upper>>,
                       !.hlines = IF staged
                                  THEN Append(@, RSub(frame.height_lower, R(20)))
                                  ELSE @]
       /\ IF staged
          THEN /\ frame' = [frame EXCEPT
                              !.pc = IF last THEN "done" ELSE "level",
                              !.level_idx = IF last THEN @ ELSE @ + 1,
                              !.max_upper = max_upper, !.min_lower = min_lower,
                              !.levels = Append(@, [height_lower |-> frame.height_lower,
                                                    height_upper |-> frame.height_upper])]
               /\ scene' = IF last
                           THEN [scene EXCEPT !.height = RSub(max_upper, min_lower)]
                           ELSE scene
          ELSE /\ frame' = [frame EXCEPT
                              !.pc = "done",
                              !.levels = Append(@, [height_lower |-> frame.height_lower,
                                                    height_upper |-> frame.height_upper])]
               /\ scene' = [scene EXCEPT
                              !.height = RSub(frame.height_upper, frame.height_lower)]

(***************************************************************************)
(* The Scene from its construction through one call of Scene.plot.         *)
(***************************************************************************)
SceneInstructions == {I_empty, I_table}

Init ==
    /\ config \in Configs
    /\ \E rooms \in RoomLists, instruction \in SceneInstructions :
          scene = MkScene(rooms, instruction)
    /\ frame = IdleFrame
    /\ canvas = NoCanvas
    /\ probe = NoProbe

Plot ==
    \E propositions \in PropositionLists :
      \E constraints \in {[none |-> TRUE, list |-> <<>>]} \cup
                         {[none |-> FALSE, list |-> c] :
                            c \in ConstraintLists(Len(propositions))} :
        ScenePlot(propositions, constraints)

Next == Plot \/ PlotForPropositions \/ PlotRoomsLinear \/ RowStep \/ RowsExit \/ DrawLines

Spec == Init /\ [][Next]_vars

(***************************************************************************)
(* Scenes with a room built without the objects argument, Room(config,     *)
(* room_id, receptacles): objects is None.                                 *)
(***************************************************************************)
Cellar ==
    MkRoom(S_cellar_0, <<MkReceptacle(S_rack_0, R(40), R(40))>>, <<>>,
           TRUE, FALSE, NoMap)

NoObjectsRoomLists ==
    {<<Kitchen, Bedroom>>, <<Cellar>>, <<Kitchen, Cellar>>, <<Bedroom, Cellar, Kitchen>>}

InitNoObjects ==
    /\ config \in Configs
    /\ \E rooms \in NoObjectsRoomLists, instruction \in SceneInstructions :
          scene = MkScene(rooms, instruction)
    /\ frame = IdleFrame
    /\ canvas = NoCanvas
    /\ probe = NoProbe

SpecNoObjects == InitNoObjects /\ [][Next]_vars

(***************************************************************************)
(* Repeated layout passes over one Scene: config.target_width is set and   *)
(* Scene.plot is called, again and again, also after a call that raised.   *)
(* probe keeps the arguments and the outcome of the first pass, the one    *)
(* made on the freshly constructed Scene, once that pass has completed.    *)
(***************************************************************************)
PassRoomLists == {<<Kitchen, Bedroom, Closet>>, <<Closet, Bedroom>>}
PassTargetWidths == {R(450), R(300), R(200), None}
PassPropositions == {<<P_on_top>>, <<P_on_floor>>, <<P_next_to>>}

\* the widths of the rooms of the Scene, in order
RoomWidths == [k \in DOMAIN scene.rooms |-> scene.rooms[k].width]

InitPasses ==
    /\ config \in {c \in Configs : IsNone(c.scene.target_width)}
    /\ \E rooms \in PassRoomLists : scene = MkScene(rooms, I_empty)
    /\ frame = IdleFrame
    /\ canvas = NoCanvas
    /\ probe = NoProbe

\* scene.config.target_width = target_width; scene.plot(mapping, propositions,
\* constraints=[terminal]) up to the call of plot_for_propositions
PlotPass ==
    /\ frame.pc \in {"idle", "done", "error"}
    /\ \E target_width \in PassTargetWidths, propositions \in PassPropositions :
          /\ config' = [config EXCEPT !.scene.target_width = target_width]
          /\ frame' = [IdleFrame EXCEPT !.entry = "plot", !.pc = "level",
                                        !.propositions = propositions,
                                        !.terminal = TRUE]
    /\ probe' = IF frame.pc = "done" /\ probe.calls = 0
                THEN [op |-> "first_pass",
                      args |-> [target_width |-> frame.target_width,
                                mentioned_rooms |-> frame.mentioned_rooms],
                      result |-> [rows |-> frame.rows, widths |-> RoomWidths],
                      calls |-> 1]
                ELSE probe
    /\ UNCHANGED <<scene, canvas>>

NextPasses ==
    PlotPass \/ PlotForPropositions \/ PlotRoomsLinear \/ RowStep \/ RowsExit \/ DrawLines

SpecPasses == InitPasses /\ [][NextPasses]_vars

(***************************************************************************)
(* Direct calls of Scene.sort_rooms, Scene.redistribute_target_width_to_   *)
(* rooms and Room.plot, on inputs drawn from the library.                  *)
(***************************************************************************)
UnitTargetWidths == {R(450), R(300), R(150)}
UnitPositions == {<<R(0), R(0)>>, <<R(100), RNeg(R(150))>>}

InitUnits ==
    /\ config \in Configs
    /\ scene = MkScene(<<>>, I_empty)
    /\ frame = IdleFrame
    /\ canvas = NoCanvas
    /\ probe = NoProbe

\* scene.sort_rooms(rooms, instruction); relevance_scores is its local
\* dictionary, empty when the instruction is
SortRoomsCall ==
    /\ probe.calls = 0
    /\ UNCHANGED <<config, scene, frame, canvas>>
    /\ \E rooms \in RoomLists, instruction \in Instructions :
          probe' = [op |-> "sort_rooms",
                    args |-> [rooms |-> rooms, instruction |-> instruction],
                    result |-> [order |-> SortOrder(rooms, instruction),
                                relevance_scores |->
                                    IF instruction = <<>> THEN <<>>
                                    ELSE RelevanceScores(rooms, instruction)],
                    calls |-> 1]

\* scene.redistribute_target_width_to_rooms(rooms_to_plot, target_width)
RedistributeCall ==
    /\ probe.calls = 0
    /\ UNCHANGED <<config, scene, frame, canvas>>
    /\ \E rooms_to_plot \in RoomLists, target_width \in UnitTargetWidths :
          probe' = [op |-> "redistribute_target_width_to_rooms",
                    args |-> [rooms_to_plot |-> rooms_to_plot,
                              target_width |-> target_width],
                    result |-> RedistributeTargetWidthToRooms(rooms_to_plot,
                                                              target_width),
                    calls |-> 1]

\* room.plot(position, ax, target_width) on a room that has not been plotted
RoomPlotCall ==
    /\ probe.calls = 0
    /\ UNCHANGED <<config, scene, frame, canvas>>
    /\ \E k \in DOMAIN UnitRooms, position \in UnitPositions,
          target_width \in {None, R(300)} :
          \E r \in {RoomPlot(UnitRooms[k], position, target_width)} :
            probe' = [op |-> "Room.plot",
                      args |-> [room |-> UnitRooms[k], position |-> position,
                                target_width |-> target_width],
                      result |-> <<r>>, calls |-> 1]

\* the same call once more, on the room as the first call left it
RoomPlotAgain ==
    /\ probe.op = "Room.plot"
    /\ probe.calls = 1
    /\ UNCHANGED <<config, scene, frame, canvas>>
    /\ \E r \in {RoomPlot(probe.result[1].room, probe.args.position,
                           probe.args.target_width)} :
          probe' = [probe EXCEPT !.result = Append(@, r), !.calls = 2]

\* the anchor points add_arrow is called with
UnitAnchors == {<<R(x), R(y)>> : x \in {0, 10, 20}, y \in {0, 10, 20}}

\* scene.add_arrow(ax, obj_loc, room_loc, line_style)
AddArrowCall ==
    /\ probe.calls = 0
    /\ UNCHANGED <<config, scene, frame, canvas>>
    /\ \E obj_loc \in UnitAnchors, room_loc \in UnitAnchors :
          probe' = [op |-> "add_arrow",
                    args |-> [obj_loc |-> obj_loc, room_loc |-> room_loc],
                    result |-> <<AddArrow(obj_loc, room_loc, Solid, ColorPalette[1])>>,
                    calls |-> 1]

\* a second call of add_arrow, with anchors of its own
AddArrowAgain ==
    /\ probe.op = "add_arrow"
    /\ probe.calls = 1
    /\ UNCHANGED <<config, scene, frame, canvas>>
    /\ \E obj_loc \in UnitAnchors, room_loc \in UnitAnchors :
          probe' = [probe EXCEPT
                      !.result = Append(@, AddArrow(obj_loc, room_loc, Solid,
                                                    ColorPalette[1])),
                      !.calls = 2]

\* the objects Object.plot is called on: with a category of the maps, and
\* with an id prefix the maps do not hold, without and with an icon file
UnitObjects ==
    {MkObject(S_apple_0, FALSE), MkObject(S_ghost_0, FALSE), MkObject(S_ghost_0, TRUE)}

\* obj.plot(ax, position)
ObjectPlotCall ==
    /\ probe.calls = 0
    /\ UNCHANGED <<config, scene, frame, canvas>>
    /\ \E obj \in UnitObjects, position \in UnitPositions :
          probe' = [op |-> "Object.plot",
                    args |-> [obj |-> obj, position |-> position],
                    result |-> ObjectPlot(obj, position),
                    calls |-> 1]

NextUnits ==
    \/ SortRoomsCall \/ RedistributeCall \/ RoomPlotCall \/ RoomPlotAgain
    \/ AddArrowCall \/ AddArrowAgain \/ ObjectPlotCall

SpecUnits == InitUnits /\ [][NextUnits]_vars

(***************************************************************************)
(* Properties.                                                             *)
(***************************************************************************)
\* the widths, after plotting, of the rooms of a row
PlottedRowWidths(row) == [k \in DOMAIN row |-> scene.rooms[row[k]].width]

\* C1: in the target-width variant of plot_rooms_linear, the widths of the
\* rooms of every flushed row (the rows flushed in the loop and the final
\* row), after each room has been plotted with its redistributed target
\* width, sum to target_width.
C1_RowWidthsSumToTarget ==
    ~IsNone(frame.target_width) =>
        \A j \in DOMAIN frame.rows :
            RSum(PlottedRowWidths(frame.rows[j])) = frame.target_width

\* a row of two rooms was flushed in the loop and a final row after it
C1_TwoRowsFlushed ==
    /\ ~IsNone(frame.target_width)
    /\ frame.pc = "lines"
    /\ Len(frame.rows) = 2
    /\ Len(frame.rows[1]) = 2
    /\ scene.rooms[frame.rows[1][1]].width # Kitchen.width

\* C2: redistribute_target_width_to_rooms returns room.width * target_width /
\* (sum of the row's widths) for each room: the ratio to the room's width is
\* the same for all rooms, the results sum to target_width, and widths 100 and
\* 200 with target 450 give 150 and 300.
C2_RedistributesProportionally ==
    probe.op = "redistribute_target_width_to_rooms" =>
        LET rooms_to_plot == probe.args.rooms_to_plot
            target_width == probe.args.target_width
            widths == [k \in DOMAIN rooms_to_plot |-> rooms_to_plot[k].width]
        IN  /\ DOMAIN probe.result = DOMAIN rooms_to_plot
            /\ \A k \in DOMAIN widths :
                 RMul(probe.result[k], RSum(widths)) = RMul(widths[k], target_width)
            /\ \A k, j \in DOMAIN widths :
                 RDiv(probe.result[k], widths[k]) = RDiv(probe.result[j], widths[j])
            /\ RSum(probe.result) = target_width
            /\ (widths = <<R(100), R(200)>> /\ target_width = R(450)
                  => probe.result = <<R(150), R(300)>>)

\* the call with widths 100 and 200 and target 450
C2_Example ==
    /\ probe.op = "redistribute_target_width_to_rooms"
    /\ probe.args.rooms_to_plot = <<Closet, Kitchen>>
    /\ Closet.width = R(100) /\ Kitchen.width = R(200)
    /\ probe.args.target_width = R(450)
    /\ probe.result = <<R(150), R(300)>>

\* C3: with a non-empty instruction sort_rooms returns every room once, in
\* non-increasing relevance score, and rooms with equal scores keep their
\* input order (so equal scores throughout leave the order unchanged).
C3_SortIsStableDescending ==
    (probe.op = "sort_rooms" /\ probe.args.instruction # <<>>) =>
        LET order == probe.result.order
            score == probe.result.relevance_scores
        IN  /\ Len(order) = Len(probe.args.rooms)
            /\ Range(order) = DOMAIN probe.args.rooms
            /\ \A a, b \in DOMAIN order :
                 a < b => \/ score[order[a]] > score[order[b]]
                          \/ score[order[a]] = score[order[b]] /\ order[a] < order[b]
            /\ ((\A a, b \in DOMAIN score : score[a] = score[b])
                  => order = [k \in DOMAIN order |-> k])

\* the last of three rooms moves to the front and the two rooms that tie stay
\* in their input order
C3_ReorderedWithTie ==
    /\ probe.op = "sort_rooms"
    /\ probe.args.rooms = <<Kitchen, Bedroom, Hall>>
    /\ probe.args.instruction = I_table
    /\ probe.result.relevance_scores = <<0, 0, 1>>
    /\ probe.result.order = <<3, 1, 2>>

\* the entities of a room: the room, its receptacles and its objects, each
\* with its id
RoomEntities(room) ==
    {<<"room", 0, room.room_id>>}
    \cup {<<"receptacle", k, room.receptacles[k].receptacle_id>> :
            k \in DOMAIN room.receptacles}
    \cup {<<"object", k, room.objects[k].object_id>> : k \in DOMAIN room.objects}

\* the (entity, keyword) pairs such that the entity's phrase is a substring of
\* that keyword
MatchingPairs(room, instruction) ==
    {pair \in RoomEntities(room) \X (DOMAIN Keywords(instruction)) :
       IsSubstring(Phrase(pair[1][3]), Keywords(instruction)[pair[2]])}

LinesDrawn == frame.pc = "done" \/ (frame.pc = "level" /\ frame.level_idx > 1)
\* the level whose lines were drawn last (0 without a toposort)
LevelDrawn == IF frame.pc = "done" THEN frame.level_idx ELSE frame.level_idx - 1

\* the color the k-th proposition of the level is drawn in
ColorOf(k) ==
    ColorPalette[(Cardinality({j \in 1..(k - 1) :
                                 HasObjectNames(frame.current_propositions[j])})
                  % Len(ColorPalette)) + 1]

\* the arrows of the k-th proposition of the level drawn last
ArrowsOf(k) ==
    {i \in DOMAIN canvas.arrows :
       /\ canvas.arrows[i].level = LevelDrawn
       /\ canvas.arrows[i].arrow.color = ColorOf(k)}

\* (room, object) with the object of that room named by the proposition, and
\* (room, receptacle) likewise
NamedObjects(prop) ==
    UNION {{<<r, o>> : o \in {j \in DOMAIN scene.rooms[r].objects :
                                 scene.rooms[r].objects[j].object_id
                                     \in Range(prop.object_names)}} :
             r \in DOMAIN scene.rooms}
NamedReceptacles(prop) ==
    UNION {{<<r, c>> : c \in {j \in DOMAIN scene.rooms[r].receptacles :
                                 scene.rooms[r].receptacles[j].receptacle_id
                                     \in Range(prop.receptacle_names)}} :
             r \in DOMAIN scene.rooms}

\* the arrow the claim describes for one object and one receptacle
IsArrowFor(arrow, prop, ro, rr) ==
    /\ arrow.p0 = scene.rooms[ro[1]].objects[ro[2]].center_position
    /\ arrow.p1 = IF prop.function_name = "is_on_top"
                  THEN scene.rooms[rr[1]].receptacles[rr[2]].top_placeholder_position
                  ELSE scene.rooms[rr[1]].receptacles[rr[2]].center_placeholder_position
    /\ arrow.curved
    /\ arrow.line_style = IF Len(prop.object_names) > prop.number THEN Dashed ELSE Solid

\* C5: for an is_on_top or is_inside proposition there is exactly one curved
\* arrow for every pair of an object found and a receptacle found, from the
\* object's center to the receptacle's top placeholder (is_on_top) or center
\* placeholder (is_inside), dashed exactly when len(object_names) > number.
C5_OneArrowPerPair ==
    LinesDrawn =>
        \A k \in DOMAIN frame.current_propositions :
            LET prop == frame.current_propositions[k] IN
            prop.function_name \in {"is_on_top", "is_inside"} =>
                /\ Cardinality(ArrowsOf(k)) =
                       Cardinality(NamedObjects(prop)) * Cardinality(NamedReceptacles(prop))
                /\ \A ro \in NamedObjects(prop), rr \in NamedReceptacles(prop) :
                       \E i \in ArrowsOf(k) :
                           IsArrowFor(canvas.arrows[i].arrow, prop, ro, rr)
                /\ \A i \in ArrowsOf(k) :
                       \E ro \in NamedObjects(prop), rr \in NamedReceptacles(prop) :
                           IsArrowFor(canvas.arrows[i].arrow, prop, ro, rr)

\* two dashed arrows drawn for is_inside with two objects and number 1, and one
\* solid arrow for is_on_top with one object
C5_DashedPair ==
    /\ LinesDrawn
    /\ frame.current_propositions = <<P_inside>>
    /\ Cardinality(ArrowsOf(1)) = 2
    /\ \A i \in ArrowsOf(1) : canvas.arrows[i].arrow.line_style = Dashed

\* the anchors Room.plot leaves: of the room, its receptacles and its objects
Anchors(room) ==
    [center_position |-> room.center_position,
     width |-> room.width, height |-> room.height,
     receptacles |-> [k \in DOMAIN room.receptacles |->
                        <<room.receptacles[k].center_placeholder_position,
                          room.receptacles[k].top_placeholder_position>>],
     objects |-> [k \in DOMAIN room.objects |-> room.objects[k].center_position]]

\* C6: two calls of Room.plot in a row with the same position and target_width
\* both return, and leave the same room center, width, height and the same
\* anchors of every receptacle and object, also for a room with an object
\* mapped to a receptacle through object_to_recep.
C6_PlotTwiceSameAnchors ==
    (probe.op = "Room.plot" /\ probe.calls = 2) =>
        /\ probe.result[1].err = "" /\ probe.result[2].err = ""
        /\ probe.result[1].room.center_position # <<>>
        /\ \A k \in DOMAIN probe.result[1].room.objects :
             probe.result[1].room.objects[k].center_position # <<>>
        /\ Anchors(probe.result[1].room) = Anchors(probe.result[2].room)

\* a measure of the work the row-filling loop has left: two for every room
\* not yet passed, one for a row that waits to be flushed
RowLoopVariant ==
    2 * (Len(frame.all_rooms) + 1 - frame.i)
    + (IF frame.current_rooms_to_plot # <<>> THEN 1 ELSE 0)

\* C7: plot_rooms_linear terminates, with or without a target_width: every
\* iteration of the row-filling loop either ends the call (it returns or
\* raises) or strictly lowers a measure that is never negative, so no room
\* index is revisited forever, also when a room is wider than the canvas.
C7_RowLoopTerminates ==
    [][frame.pc = "rows"
         => \/ frame'.pc \in {"lines", "error"}
            \/ /\ frame'.pc = "rows"
               /\ frame.iters < MaxIters - 1
               /\ RowLoopVariant' < RowLoopVariant
               /\ RowLoopVariant' >= 0]_vars

\* a room wider than the canvas was met with an empty row: the call ended by
\* the ValueError of max() over no rooms
C7_TooWideRoomMet ==
    /\ frame.pc = "error"
    /\ frame.at = "plot_rooms_linear"
    /\ frame.err = "ValueError"
    /\ frame.iters > 0
    /\ frame.i <= Len(frame.all_rooms)
    /\ RLt(scene.width, scene.rooms[frame.all_rooms[frame.i]].width)

\* C8: with a toposort, every room plotted for level k+1 lies below the
\* height_lower returned for level k less the divider gap, with and without a
\* target_width.
C8_LevelsDoNotOverlap ==
    \A i \in DOMAIN canvas.plots :
        (canvas.plots[i].level >= 2 /\ canvas.plots[i].level - 1 <= Len(frame.levels))
            => RLe(canvas.plots[i].top,
                   RSub(frame.levels[canvas.plots[i].level - 1].height_lower,
                        DividerGap))

\* the function names of the propositions plot_for_propositions is called with
CalledFunctionNames ==
    {frame.propositions[k].function_name :
        k \in IF frame.level_idx = 0 THEN DOMAIN frame.propositions
              ELSE Range(frame.toposort[frame.level_idx])}

\* C9: a proposition with a function_name other than the five known ones
\* makes plot_for_propositions raise at once: the call ends in an error with
\* no room plotted and no flag of a room, receptacle or object changed.
C9_UnknownFunctionRaisesAtOnce ==
    [][(frame.pc = "level" /\ ~(CalledFunctionNames \subseteq KnownFunctionNames))
         => /\ frame'.pc = "error"
            /\ frame'.err = "NotImplementedError"
            /\ frame'.at = "plot_for_propositions"
            /\ scene' = scene
            /\ canvas' = canvas]_vars

\* plot_for_propositions raised on the second proposition, the first one
\* being an is_on_top that names an object and a receptacle of the scene
C9_RaisedAfterKnownProposition ==
    /\ frame.pc = "error"
    /\ frame.at = "plot_for_propositions"
    /\ frame.err = "NotImplementedError"
    /\ frame.current_propositions = <<P_on_top, P_unknown>>
    /\ canvas.plots = <<>>
    /\ \E k \in DOMAIN scene.rooms : FindReceptacleById(scene.rooms[k], S_fridge_0) # 0
    /\ \A k \in DOMAIN scene.rooms :
         /\ ~scene.rooms[k].plot_placeholder /\ ~scene.rooms[k].in_proposition
         /\ \A j \in DOMAIN scene.rooms[k].receptacles :
              ~scene.rooms[k].receptacles[j].plot_top_placeholder

\* C10: Scene.plot takes propositions of the five kinds without rejecting any
\* of them, with and without a TemporalConstraint that has a non-empty
\* toposort.
C10_FiveKindsAccepted ==
    (frame.entry = "plot"
       /\ \A k \in DOMAIN frame.propositions :
            frame.propositions[k].function_name \in KnownFunctionNames)
        => frame.err # "NotImplementedError"

\* the chord of an arrow and the offset of its control point from the midpoint
\* of the chord
Chord(arrow) == <<RSub(arrow.p1[1], arrow.p0[1]), RSub(arrow.p1[2], arrow.p0[2])>>
CtrlOffset(arrow) ==
    <<RSub(arrow.ctrl[1], RDiv(RAdd(arrow.p0[1], arrow.p1[1]), R(2))),
      RSub(arrow.ctrl[2], RDiv(RAdd(arrow.p0[2], arrow.p1[2]), R(2)))>>

\* C11: add_arrow never normalizes a zero tangent: when the end tangent
\* 2*(p1 - ctrl) is the zero vector (coincident anchors, or any other such
\* pair) the direction is not the result of a division by a zero norm.
C11_ZeroTangentGuarded ==
    probe.op = "add_arrow" =>
        \A k \in DOMAIN probe.result :
            probe.result[k].tangent = <<R(0), R(0)>>
                => ~(probe.result[k].head /\ probe.result[k].arrow_dir = "nan")


\* the rooms of the scene a proposition names
NamedRooms(prop) ==
    {r \in DOMAIN scene.rooms : scene.rooms[r].room_id \in Range(prop.room_names)}

\* the ids a proposition names that are found in no room of the scene
MissingIds(prop) ==
    {id \in Range(prop.object_names) :
        \A r \in DOMAIN scene.rooms :
           \A o \in DOMAIN scene.rooms[r].objects :
              scene.rooms[r].objects[o].object_id # id}
    \cup {id \in Range(prop.receptacle_names) :
        \A r \in DOMAIN scene.rooms :
           \A c \in DOMAIN scene.rooms[r].receptacles :
              scene.rooms[r].receptacles[c].receptacle_id # id}
    \cup {id \in Range(prop.room_names) :
        \A r \in DOMAIN scene.rooms : scene.rooms[r].room_id # id}

\* the ends of the arrows a proposition should get: found objects paired with
\* found receptacles (at the anchor of the relation) or found rooms
ExpectedEnds(prop) ==
    IF prop.function_name = "is_in_room"
    THEN {<<scene.rooms[ro[1]].objects[ro[2]].center_position,
            scene.rooms[r].center_position>> :
             ro \in NamedObjects(prop), r \in NamedRooms(prop)}
    ELSE {<<scene.rooms[ro[1]].objects[ro[2]].center_position,
            IF prop.function_name = "is_on_top"
            THEN scene.rooms[rr[1]].receptacles[rr[2]].top_placeholder_position
            ELSE scene.rooms[rr[1]].receptacles[rr[2]].center_placeholder_position>> :
             ro \in NamedObjects(prop), rr \in NamedReceptacles(prop)}

\* C12: when a proposition names an object, receptacle or room id found in no
\* room, drawing its lines raises nothing, draws no arrow for that id, and
\* still draws the arrows of the ids that are found: the arrows drawn are one
\* for each pair of a found object and a found receptacle or room.
C12_MissingIdsSkipped ==
    LinesDrawn =>
        \A k \in DOMAIN frame.current_propositions :
            LET prop == frame.current_propositions[k] IN
            (prop.function_name \in {"is_on_top", "is_inside", "is_in_room"}
               /\ MissingIds(prop) # {}) =>
                /\ frame.err = ""
                /\ {<<canvas.arrows[i].arrow.p0, canvas.arrows[i].arrow.p1>> :
                       i \in ArrowsOf(k)} = ExpectedEnds(prop)
                /\ Cardinality(ArrowsOf(k)) =
                       Cardinality(NamedObjects(prop))
                       * (IF prop.function_name = "is_in_room"
                          THEN Cardinality(NamedRooms(prop))
                          ELSE Cardinality(NamedReceptacles(prop)))

\* the lines of is_in_room(apple_0, ghost_0 in attic_0, kitchen_0) were drawn:
\* one arrow, from apple_0 to kitchen_0
C12_ArrowDespiteMissingIds ==
    /\ LinesDrawn
    /\ frame.current_propositions = <<P_in_room_missing>>
    /\ MissingIds(P_in_room_missing) = {S_ghost_0, S_attic_0}
    /\ Cardinality(ArrowsOf(1)) = 1


\* C13: Object.plot on an object without a usable icon whose id prefix is not
\* in the category maps completes with a default fill: nothing is raised and
\* center_position is set to position + (width/2, height/2).
C13_UnmappedCategoryFallsBack ==
    (/\ probe.op = "Object.plot"
     /\ ~probe.args.obj.icon
     /\ CategoryKey(probe.args.obj.object_id) \notin ObjectCategoryKeys)
        => /\ probe.result.err = ""
           /\ probe.result.obj.center_position =
                  <<RAdd(probe.args.position[1], RDiv(config.object.width, R(2))),
                    RAdd(probe.args.position[2], RDiv(config.object.height, R(2)))>>


\* the ids of Scene.rooms, in order
RoomIds == [k \in DOMAIN scene.rooms |-> scene.rooms[k].room_id]

\* C14: once the Scene is constructed the order of Scene.rooms never changes:
\* no step of plot, plot_for_propositions or plot_rooms_linear (either
\* variant) reorders, drops or adds a room.
C14_RoomOrderStable == [][RoomIds' = RoomIds]_vars

\* two levels were laid out with a target width, the mentioned rooms moved to
\* the front of the plot order, and Scene.rooms is still in its own order
C14_PlottedInAnotherOrder ==
    /\ frame.pc = "done"
    /\ ~IsNone(frame.target_width)
    /\ Len(frame.levels) >= 2
    /\ frame.all_rooms # [k \in DOMAIN scene.rooms |-> k]
    /\ RoomIds[frame.all_rooms[1]] # RoomIds[1]


\* a pass with the arguments of the first pass, made after it
SamePassAgain ==
    /\ probe.op = "first_pass"
    /\ ~IsNone(config.scene.target_width)
    /\ config.scene.target_width = probe.args.target_width
    /\ frame.mentioned_rooms = probe.args.mentioned_rooms

\* C15: room widths do not drift over target-width layout passes: a pass made
\* after any sequence of passes (other target widths, other mentioned rooms,
\* passes that raised) completes like the same pass on the fresh scene did,
\* with the same rows and the same room widths.
C15_NoWidthDrift ==
    SamePassAgain =>
        /\ ~(frame.pc = "error" /\ frame.at = "plot_rooms_linear")
        /\ frame.pc \in {"lines", "done"}
              => /\ frame.rows = probe.result.rows
                 /\ RoomWidths = probe.result.widths

\* the pass with target width 300 done on the fresh scene and, after a pass
\* that left other widths, done again with two rows
C15_RelaidOut ==
    /\ SamePassAgain
    /\ frame.pc = "done"
    /\ probe.args.target_width = R(300)
    /\ Len(frame.rows) = 2
    /\ probe.result.widths # [k \in DOMAIN scene.rooms |-> InitSize(scene.rooms[k]).width]


\* C16: Scene.plot rejects constraints that hold no
\* TerminalSatisfactionConstraint (an empty list, or a lone
\* TemporalConstraint) with the AssertionError it raises for constraints=None.
C16_NoTerminalRejected ==
    (frame.entry = "plot" /\ ~frame.terminal)
        => (frame.pc = "error" /\ frame.err = "AssertionError" /\ frame.at = "plot")


\* the left edge of the room drawn by the Room.plot call in probe
RoomLeft == RAdd(probe.args.position[1], config.room.horizontal_margin)

\* margin_fraction * room_width of a plotted room
RecepMargin(room) ==
    RMul(config.room.receptacle_horizontal_margin_fraction, room.room_width)

\* the spacing formula for the single receptacle of a plotted room
SingleSpacing(room) ==
    RDiv(RSub(RSub(room.room_width, RMul(R(2), RecepMargin(room))),
              room.receptacles[1].width),
         R(2))

\* the receptacle of a plotted room sits at room_left + spacing +
\* margin_fraction * room_width, the negative spacing pulling it left of the
\* margin
PlacedWithNegativeSpacing(room) ==
    /\ RLt(SingleSpacing(room), R(0))
    /\ room.receptacles[1].position # <<>>
    /\ room.receptacles[1].position[1] =
           RAdd(RAdd(RoomLeft, SingleSpacing(room)), RecepMargin(room))
    /\ RLt(room.receptacles[1].position[1], RAdd(RoomLeft, RecepMargin(room)))

InUnconstrainedRows == frame.pc \in {"rows", "lines"} /\ IsNone(frame.target_width)

\* the rows of the current call: those flushed, then the one being filled
RowsSoFar ==
    IF frame.pc = "rows" /\ frame.current_rooms_to_plot # <<>>
    THEN Append(frame.rows, frame.current_rooms_to_plot)
    ELSE frame.rows

RowWidth(row) == RSum(RowWidths(scene.rooms, row))

MappedAt(room) == {k \in DOMAIN room.objects : IsMapped(room, room.objects[k])}

\* C19: Room.plot draws every object mapped through object_to_recep at its
\* receptacle's new_top_item_position and moves that cursor up by the object's
\* height, so the objects mapped to one receptacle are stacked in the room's
\* object order, and the call returns.
C19_MappedObjectsStacked ==
    probe.op = "Room.plot" =>
        \A j \in DOMAIN probe.result :
            LET room == probe.result[j].room IN
            MappedAt(probe.args.room) # {} =>
                /\ probe.result[j].err = ""
                /\ \A k \in MappedAt(room) : room.objects[k].center_position # <<>>
                /\ \A a, b \in MappedAt(room) :
                      (/\ a < b
                       /\ room.object_to_recep.map[room.objects[a].object_id]
                            = room.object_to_recep.map[room.objects[b].object_id])
                          => /\ room.objects[a].center_position[1]
                                 = room.objects[b].center_position[1]
                             /\ RLe(RAdd(room.objects[a].center_position[2],
                                         config.object.height),
                                    room.objects[b].center_position[2])


\* the cross product of the chord of an arrow with the offset of its control
\* point, and the sign of a rational
Cross(arrow) ==
    RSub(RMul(Chord(arrow)[1], CtrlOffset(arrow)[2]),
         RMul(Chord(arrow)[2], CtrlOffset(arrow)[1]))
RSign(r) == IF RLt(r, R(0)) THEN -1 ELSE IF RLt(R(0), r) THEN 1 ELSE 0

\* C20 as stated: the control point of add_arrow lies on the same side of the
\* directed chord for every pair of distinct anchors: the cross product of the
\* chord with the offset of the control point has the same sign whatever the
\* direction from source to destination.
C20_SameSideWhateverDirection ==
    (/\ probe.op = "add_arrow" /\ probe.calls = 2
     /\ Chord(probe.result[1]) # <<R(0), R(0)>>
     /\ Chord(probe.result[2]) # <<R(0), R(0)>>)
        => RSign(Cross(probe.result[1])) = RSign(Cross(probe.result[2]))

\* C20, amended: the control point of add_arrow is the midpoint of the chord
\* moved by (dy/2, |dx|/2): its vertical offset is never negative whatever the
\* direction from source to destination, and the cross product of the chord
\* with the offset is (dx*|dx| - dy*dy)/2, whose sign depends on the direction.
C20_CtrlBowsUpward ==
    probe.op = "add_arrow" =>
        \A k \in DOMAIN probe.result :
            LET dx == Chord(probe.result[k])[1]
                dy == Chord(probe.result[k])[2]
            IN
            /\ CtrlOffset(probe.result[k]) = <<RDiv(dy, R(2)), RDiv(RAbs(dx), R(2))>>
            /\ RLe(R(0), CtrlOffset(probe.result[k])[2])
            /\ Cross(probe.result[k])
                 = RDiv(RSub(RMul(dx, RAbs(dx)), RMul(dy, dy)), R(2))

\* two arrows between the same two anchors, one in each direction, whose
\* control points lie on opposite sides of their directed chords
C20_OppositeSides ==
    /\ probe.op = "add_arrow"
    /\ probe.calls = 2
    /\ probe.result[1].p0 = probe.result[2].p1
    /\ probe.result[1].p1 = probe.result[2].p0
    /\ RSign(Cross(probe.result[1])) = 1
    /\ RSign(Cross(probe.result[2])) = -1
    /\ RLt(R(0), CtrlOffset(probe.result[1])[2])
    /\ RLt(R(0), CtrlOffset(probe.result[2])[2])


\* the rectangles drawn, in the current layout pass, for the room at position
\* k of Scene.rooms
PlotsOf(k) ==
    {j \in DOMAIN canvas.plots :
        /\ canvas.plots[j].level = frame.level_idx
        /\ canvas.plots[j].room_id = scene.rooms[k].room_id}

\* the rows of a layout pass that has returned: without a target width the
\* row of the mentioned rooms comes first
RowsOfPass ==
    IF IsNone(frame.target_width)
    THEN <<IndicesIn(scene.rooms, Range(frame.mentioned_rooms))>> \o frame.rows
    ELSE frame.rows

EmptyRowFlushed ==
    /\ frame.pc = "error"
    /\ frame.at = "plot_rooms_linear"
    /\ frame.err = "ValueError"

\* C22: in both variants of plot_rooms_linear a row is never flushed empty:
\* whenever the maximum of the row's heights is taken, or the row's total
\* width is divided by, the row holds a room; also when a room is wider than
\* the canvas, when no room is mentioned and when every room is mentioned.
C22_RowNeverFlushedEmpty == ~EmptyRowFlushed


\* the propositions of the current plot_for_propositions call that have one of
\* the given function names
CurrentWith(function_names) ==
    {frame.current_propositions[k] :
        k \in {j \in DOMAIN frame.current_propositions :
                 frame.current_propositions[j].function_name \in function_names}}

\* the receptacle, room and object names those propositions carry
ReceptaclesNamedBy(function_names) ==
    UNION {Range(p.receptacle_names) : p \in CurrentWith(function_names)}
RoomsNamedBy(function_names) ==
    UNION {Range(p.room_names) : p \in CurrentWith(function_names)}
ObjectsNamedBy(function_names) ==
    UNION {Range(p.object_names) : p \in CurrentWith(function_names)}

\* the room is one of the mentioned rooms of the current call: named by an
\* is_in_room proposition, or holding an object or a receptacle that a
\* proposition of the call names
MentionedByCurrent(room) ==
    \/ room.room_id \in RoomsNamedBy({"is_in_room"})
    \/ \E j \in DOMAIN room.objects :
          room.objects[j].object_id
            \in ObjectsNamedBy({"is_on_top", "is_inside", "is_in_room", "is_on_floor"})
    \/ \E j \in DOMAIN room.receptacles :
          room.receptacles[j].receptacle_id
            \in ReceptaclesNamedBy({"is_on_top", "is_inside"})

\* plot_for_propositions has set the flags for frame.current_propositions
FlagsSet == frame.pc \in {"layout", "rows", "lines", "done"}

\* C23: the highlight flags reflect only the propositions of the current
\* plot_for_propositions call, whatever earlier levels set: a receptacle has
\* plot_top_placeholder (plot_center_placeholder) iff an is_on_top (is_inside)
\* proposition of this call names it, a room has plot_placeholder iff an
\* is_in_room proposition of this call names it in room_names, and a room has
\* in_proposition iff it is one of this call's mentioned rooms.
C23_FlagsOfCurrentCallOnly ==
    FlagsSet =>
        \A k \in DOMAIN scene.rooms :
            LET room == scene.rooms[k] IN
            /\ room.plot_placeholder <=> room.room_id \in RoomsNamedBy({"is_in_room"})
            /\ room.in_proposition <=> MentionedByCurrent(room)
            /\ room.in_proposition <=> room.room_id \in Range(frame.mentioned_rooms)
            /\ \A j \in DOMAIN room.receptacles :
                  /\ room.receptacles[j].plot_top_placeholder
                       <=> room.receptacles[j].receptacle_id
                             \in ReceptaclesNamedBy({"is_on_top"})
                  /\ room.receptacles[j].plot_center_placeholder
                       <=> room.receptacles[j].receptacle_id
                             \in ReceptaclesNamedBy({"is_inside"})

\* the second level of a staged plot, an is_in_room proposition, has been laid
\* out after a first level whose is_on_top proposition flagged the fridge: the
\* fridge is no longer flagged and the kitchen has its placeholder
C23_SecondLevelResetFirst ==
    /\ frame.pc = "lines"
    /\ frame.level_idx = 2
    /\ frame.propositions = <<P_on_top, P_in_room>>
    /\ frame.current_propositions = <<P_in_room>>
    /\ Len(frame.levels) = 1
    /\ \E k \in DOMAIN scene.rooms :
          /\ scene.rooms[k].room_id = S_kitchen_0
          /\ scene.rooms[k].plot_placeholder
          /\ ~scene.rooms[k].receptacles[1].plot_top_placeholder


\* a room of the scene was built with objects=None
HasRoomWithoutObjects == \E k \in DOMAIN scene.rooms : scene.rooms[k].objects_none

\* C24: a room built with objects=None is handled by every Scene operation
\* without error, as a room that has no objects: no call on a scene with
\* such a room ends in the TypeError of iterating over None.
C24_NoneObjectsHandled ==
    HasRoomWithoutObjects => ~(frame.pc = "error" /\ frame.err = "TypeError")


=============================================================================
